---- MODULE Spec2Model ----
(***************************************************************************)
(* A model of eseb's streaming authenticated-encryption layer:             *)
(*   EncryptingRecordWriter / DecryptingRecordWriter /                     *)
(*   DecryptingRecordReader      (src/src/encrypted_record_writer.rs)      *)
(*   EncryptingWriter / DecryptingReader  (src/src/encrypting_writer.rs)   *)
(*   symmetric_encrypt_sign / symmetric_decrypt_verify  (src/src/lib.rs)   *)
(*                                                                         *)
(* The libsodium secretstream, the brotli codec and the record channel are *)
(* external collaborators; they are modelled by their contracts:           *)
(*   - a chunk pulls only under the key and at the stream position it was  *)
(*     pushed with, and no chunk pushes or pulls once the stream has seen  *)
(*     a Final tag;                                                        *)
(*   - compression is an injective, non-identity encoding whose output is  *)
(*     never empty, and decompression fails on anything else (on the empty *)
(*     input as well);                                                     *)
(*   - the record channel is a sequence of opaque records.                 *)
(***************************************************************************)
EXTENDS Integers, Sequences, FiniteSets, TLC

\* ------------------------------------------------------------ bounds
\* Longest buffer a caller passes to write_record / write.
MaxLen == 2
\* Most write_record / write calls before the caller finalizes.
MaxRecs == 2
\* Most chunks a compatibility producer pushes with write_record_internal.
MaxChunks == 3
\* Largest destination buffer handed to DecryptingReader.read.
MaxRead == 2
\* Calls a caller still makes after a consumer reported its end or an error.
MaxExtra == 1
\* Longest buffer handed to symmetric_encrypt_sign.
MaxBuf == 3
\* Most bytes appended to a whole-buffer ciphertext in transit.
MaxAppend == 5
\* The longest whole-buffer ciphertext, in bytes: the header, the initial
\* Message chunk and the Final chunk with their lengths, and MaxBuf blocks of
\* one byte.
MaxCt == 15 + 6 * MaxBuf
\* Most explicit flush calls on a writer.
MaxFlush == 1

\* ------------------------------------------------------------ data
Byte == {0, 1}

BytesUpTo(n) == UNION {[1..k -> Byte] : k \in 0..n}

\* The records an honest caller writes.
Records == BytesUpTo(MaxLen)

\* The chunk payloads a compatibility producer pushes (write_record_internal).
RawData == {<<>>, <<0>>, <<1>>}

Tags == {"Message", "Push", "Rekey", "Final"}

\* The chunks a compatibility producer pushes: any payload under Message, Push
\* and Final, one payload under Rekey (no consumer looks into a Rekey chunk
\* it rejects).
RawChunks ==
  (RawData \X {"Message", "Push", "Final"}) \cup {<< <<1>>, "Rekey" >>}

Keys == {"k1", "k2"}

\* The key every producer of the model encrypts with.
EncKey == "k1"

Min(a, b) == IF a < b THEN a ELSE b

RECURSIVE Flatten(_)
Flatten(ss) == IF ss = <<>> THEN <<>> ELSE Head(ss) \o Flatten(Tail(ss))

\* ------------------------------------------------------------ brotli
Flip(x) == [i \in 1..Len(x) |-> 1 - x[i]]

\* brotli::CompressorReader ... read_to_end: never fails, never empty.
Compress(x) == <<1>> \o Flip(x) \o <<0>>

\* brotli::BrotliDecompress: [ok, v]; fails on a stream Compress never made.
Decompress(y) ==
  IF Len(y) >= 2 /\ y[1] = 1 /\ y[Len(y)] = 0
  THEN [ok |-> TRUE, v |-> Flip(SubSeq(y, 2, Len(y) - 1))]
  ELSE [ok |-> FALSE, v |-> <<>>]

\* ------------------------------------------------------------ secretstream
\* The header record written by init_push.
Header == [kind |-> "hdr"]

\* A record that is neither a header nor a chunk of any stream.
Junk == [kind |-> "junk"]

\* Header::from_slice: only a header-sized record parses.
HeaderFromSlice(rec) == rec.kind = "hdr"

\* A push or pull stream: its key, its position and its finalized flag.
InitStream(key) == [key |-> key, ctr |-> 0, fin |-> FALSE]

NoStream == [key |-> "none", ctr |-> 0, fin |-> FALSE]

\* Stream::push: [ok, stream, c]; fails once the stream is finalized.
Push(s, data, tag) ==
  IF s.fin
  THEN [ok |-> FALSE, stream |-> s, c |-> Junk]
  ELSE [ok |-> TRUE,
        stream |-> [s EXCEPT !.ctr = s.ctr + 1, !.fin = (tag = "Final")],
        c |-> [kind |-> "chunk", key |-> s.key, ctr |-> s.ctr,
               tag |-> tag, p |-> data]]

Pull_AnyKey(s, rec) ==
  IF ~s.fin /\ rec.kind = "chunk" /\ rec.ctr = s.ctr
  THEN [ok |-> TRUE,
        stream |-> [s EXCEPT !.ctr = s.ctr + 1, !.fin = (rec.tag = "Final")],
        p |-> rec.p, tag |-> rec.tag]
  ELSE [ok |-> FALSE, stream |-> s, p |-> <<>>, tag |-> "none"]

\* Stream::pull: [ok, stream, p, tag]; fails once finalized, on a record that
\* is no chunk, under another key, or out of position.
Pull(s, rec) ==
  IF ~s.fin /\ rec.kind = "chunk" /\ rec.key = s.key /\ rec.ctr = s.ctr
  THEN [ok |-> TRUE,
        stream |-> [s EXCEPT !.ctr = s.ctr + 1, !.fin = (rec.tag = "Final")],
        p |-> rec.p, tag |-> rec.tag]
  ELSE [ok |-> FALSE, stream |-> s, p |-> <<>>, tag |-> "none"]

\* ------------------------------------------------------------ state
VARIABLES
  pc,        \* the phase of the run: enc, wire, dr, drr, drw, done
  compress,  \* the compress flag every writer and reader is built with
  prod,      \* who produces: "ERW" (write_record), "RAW" (write_record_internal
             \* with a tag), "EW" (EncryptingWriter.write)
  sink,      \* the records of the producer's sink, the header first
  enc,       \* the encrypting writer: inner (Some?), stream, res (the last
             \* result), and of its sink: bad ("all": it rejects writes and
             \* flushes, "flush": it rejects flushes) and flushes (the
             \* flush calls it took)
  written,   \* the buffers the caller wrote with write_record / write
  wire,      \* the ciphertext handed to the consumers
  tampered,  \* records appended to the ciphertext in transit
  dkey,      \* the key the consumers are built with
  drw,       \* DecryptingRecordWriter
  drr,       \* DecryptingRecordReader
  dr,        \* DecryptingReader
  lib        \* symmetric_encrypt_sign_file / symmetric_decrypt_verify_file

vars == <<pc, compress, prod, sink, enc, written, wire, tampered, dkey,
          drw, drr, dr, lib>>

\* DecryptingRecordWriter::new: WantHeader(key), an empty buffer.
\* inner: the Option is Some; state, stream, buf: the tuple's fields; out: the
\* downstream sink; pos: the next record of the ciphertext the caller passes;
\* res: the last write_record or flush result; closed: the result of
\* into_inner or of the teardown; flushes: the flush calls the downstream
\* sink took.
DrwNewState(key) ==
  [inner |-> TRUE, state |-> "WantHeader", stream |-> InitStream(key),
   buf |-> <<>>, out |-> <<>>, pos |-> 1, res |-> "new", closed |-> "no",
   flushes |-> 0]

\* made: new succeeded; pos: the upstream reader's position; some: the stream
\* Option is Some; ret: what each maybe_read_record call returned; ends: how
\* many of them were None or an error.
DrrIdle == [made |-> FALSE, pos |-> 1, some |-> FALSE, stream |-> NoStream,
            buf |-> <<>>, ret |-> <<>>, ends |-> 0]

\* q: the VecDeque; got: the bytes the reads returned so far; last: the last
\* read result ("data", "eof", "err"); ends: reads that returned 0 or failed.
DrIdle == [made |-> FALSE, pos |-> 1, stream |-> NoStream, q |-> <<>>,
           got |-> <<>>, last |-> "new", ends |-> 0]

\* The whole-buffer pair at rest. input: the cleartext; rpos: how much of it
\* the BufRead has consumed; es, ds: the push and pull streams; ct: the bytes
\* of the ciphertext writer; appended: bytes added to ct in transit; dpos: the
\* ciphertext reader's position; plain: the cleartext writer; res: the result
\* of symmetric_decrypt_verify_file; cut: bytes removed from the end of ct in
\* transit.
LibIdle ==
  [pc |-> "idle", input |-> <<>>, rpos |-> 0, es |-> NoStream, ct |-> <<>>,
   appended |-> 0, dkey |-> "none", dpos |-> 1, ds |-> NoStream,
   plain |-> <<>>, res |-> "none", cut |-> 0]

\* EncryptingRecordWriter::new / EncryptingWriter::new: the header is written
\* to the sink first.
Init ==
  /\ pc = "enc"
  /\ compress \in BOOLEAN
  /\ prod \in {"ERW", "RAW", "EW"}
  /\ sink = <<Header>>
  /\ enc = [inner |-> TRUE, stream |-> InitStream(EncKey), res |-> "new",
            bad |-> "no", flushes |-> 0, n |-> 0]
  /\ written = <<>>
  /\ wire = <<>>
  /\ tampered = 0
  /\ dkey = EncKey
  /\ drw = [DrwNewState(EncKey) EXCEPT !.inner = FALSE, !.state = "Idle"]
  /\ drr = DrrIdle
  /\ dr = DrIdle
  /\ lib = LibIdle

\* ------------------------------------------------------------ encrypting side
WriteRecordInternal_RollsBack(e, snk, data, tag) ==
  LET r == Push(e.stream, data, tag) IN
  IF ~r.ok THEN [e |-> [e EXCEPT !.res = "err"], sink |-> snk]
  ELSE IF ~e.inner \/ e.bad = "all"
       THEN [e |-> [e EXCEPT !.res = "err"], sink |-> snk]
       ELSE [e |-> [e EXCEPT !.stream = r.stream, !.res = "ok"],
             sink |-> Append(snk, r.c)]

\* EncryptingRecordWriter::write_record_internal: push, then write the chunk
\* to the sink. [e, sink].
WriteRecordInternal(e, snk, data, tag) ==
  LET r == Push(e.stream, data, tag) IN
  IF ~r.ok THEN [e |-> [e EXCEPT !.res = "err"], sink |-> snk]
  ELSE IF ~e.inner \/ e.bad = "all"
       THEN [e |-> [e EXCEPT !.stream = r.stream, !.res = "err"], sink |-> snk]
       ELSE [e |-> [e EXCEPT !.stream = r.stream, !.res = "ok"],
             sink |-> Append(snk, r.c)]

ErwWriteRecordOp_NoCompress(e, snk, data) ==
  WriteRecordInternal(e, snk, data, "Push")

\* EncryptingRecordWriter::write_record: compress in full, one Push chunk.
ErwWriteRecordOp(e, snk, data) ==
  IF compress
  THEN WriteRecordInternal(e, snk, Compress(data), "Push")
  ELSE WriteRecordInternal(e, snk, data, "Push")

\* EncryptingWriter::write_record_internal: push, then write the chunk to the
\* sink. [e, sink].
EwWriteRecordInternal(e, snk, data, tag) ==
  LET r == Push(e.stream, data, tag) IN
  IF ~r.ok THEN [e |-> [e EXCEPT !.res = "err"], sink |-> snk]
  ELSE IF ~e.inner \/ e.bad = "all"
       THEN [e |-> [e EXCEPT !.stream = r.stream, !.res = "err"], sink |-> snk]
       ELSE [e |-> [e EXCEPT !.stream = r.stream, !.res = "ok"],
             sink |-> Append(snk, r.c)]

\* The value io::Write::write returns for buf: buf.len() on success.
EwReturn(r, buf) ==
  [e |-> [r.e EXCEPT !.n = IF r.e.res = "ok" THEN Len(buf) ELSE 0],
   sink |-> r.sink]

EwWriteOp_SkipsEmpty(e, snk, buf) ==
  IF buf = <<>> THEN [e |-> [e EXCEPT !.res = "ok", !.n = 0], sink |-> snk]
  ELSE IF compress
       THEN EwReturn(EwWriteRecordInternal(e, snk, Compress(buf), "Push"), buf)
       ELSE EwReturn(EwWriteRecordInternal(e, snk, buf, "Push"), buf)

\* EncryptingWriter::write: compress in full, one Push chunk.
EwWriteOp(e, snk, buf) ==
  IF compress
  THEN EwReturn(EwWriteRecordInternal(e, snk, Compress(buf), "Push"), buf)
  ELSE EwReturn(EwWriteRecordInternal(e, snk, buf, "Push"), buf)

ErwIntoInnerInternal_Message(e, snk) ==
  WriteRecordInternal(e, snk, <<>>, "Message")

\* into_inner_internal of EncryptingRecordWriter: an empty Final chunk.
ErwIntoInnerInternal(e, snk) == WriteRecordInternal(e, snk, <<>>, "Final")

CanWrite ==
  pc = "enc" /\ enc.stream.ctr < (IF prod = "RAW" THEN MaxChunks ELSE MaxRecs)

ConsumersIdle == UNCHANGED <<tampered, dkey, drw, drr, dr, lib>>

ErwWriteRecord(data) ==
  /\ CanWrite /\ prod = "ERW"
  /\ LET r == ErwWriteRecordOp(enc, sink, data) IN
       /\ enc' = r.e
       /\ sink' = r.sink
       /\ written' = IF r.e.res = "ok" THEN Append(written, data) ELSE written
  /\ UNCHANGED <<pc, compress, prod, wire, lib>>
  /\ ConsumersIdle

\* A compatibility producer: write_record_internal with a tag of its choice.
ErwWriteRecordInternal(data, tag) ==
  /\ CanWrite /\ prod = "RAW"
  /\ LET r == WriteRecordInternal(enc, sink, data, tag) IN
       /\ enc' = r.e
       /\ sink' = r.sink
  /\ UNCHANGED <<pc, compress, prod, written, wire, lib>>
  /\ ConsumersIdle

\* EncryptingRecordWriter::flush.
ErwFlushOp(e) ==
  IF ~e.inner \/ e.bad # "no" THEN [e EXCEPT !.res = "err"]
  ELSE [e EXCEPT !.flushes = e.flushes + 1, !.res = "ok"]

ErwDropOp_NoFinal(e, snk) ==
  IF ~e.inner THEN [e |-> e, sink |-> snk]
  ELSE IF e.bad # "no" THEN [e |-> [e EXCEPT !.res = "panic"], sink |-> snk]
  ELSE [e |-> [e EXCEPT !.flushes = e.flushes + 1, !.res = "dropped"],
        sink |-> snk]

\* Drop for EncryptingRecordWriter: nothing once the sink was taken; else
\* finalize and flush, and panic when either fails. [e, sink].
ErwDropOp(e, snk) ==
  IF ~e.inner THEN [e |-> e, sink |-> snk]
  ELSE LET f == ErwIntoInnerInternal(e, snk) IN
       IF f.e.res # "ok" \/ f.e.bad # "no"
       THEN [e |-> [f.e EXCEPT !.res = "panic"], sink |-> f.sink]
       ELSE [e |-> [f.e EXCEPT !.flushes = f.e.flushes + 1, !.res = "dropped"],
             sink |-> f.sink]

\* EncryptingRecordWriter::into_inner: finalize, take the sink, and the
\* writer is dropped as the call returns, on the error return with its sink
\* still inside. [e, sink]; res is "ok", "err" or "panic".
ErwIntoInnerOp(e, snk) ==
  LET r == ErwIntoInnerInternal(e, snk) IN
  IF r.e.res = "ok"
  THEN ErwDropOp([r.e EXCEPT !.inner = FALSE], r.sink)
  ELSE LET d == ErwDropOp(r.e, r.sink) IN
       IF d.e.res = "panic" THEN d
       ELSE [e |-> [d.e EXCEPT !.res = "err"], sink |-> d.sink]

ErwIntoInner ==
  /\ pc = "enc" /\ prod \in {"ERW", "RAW"} /\ enc.inner
  /\ LET r == ErwIntoInnerOp(enc, sink) IN
       /\ enc' = r.e
       /\ sink' = r.sink
       /\ wire' = IF r.e.res = "ok" THEN r.sink ELSE <<>>
       /\ pc' = IF r.e.res = "ok" THEN "wire" ELSE "done"
  /\ UNCHANGED <<compress, prod, written, lib>>
  /\ ConsumersIdle

\* The tests' crypt_writer.inner.take(): the sink as it stands, no Final chunk
\* added.
ErwTakeInner ==
  /\ pc = "enc" /\ prod = "RAW" /\ enc.inner
  /\ enc' = [enc EXCEPT !.inner = FALSE]
  /\ wire' = sink
  /\ pc' = "wire"
  /\ UNCHANGED <<compress, prod, sink, written, lib>>
  /\ ConsumersIdle

\* EncryptingRecordWriter::flush, called by the caller.
ErwFlush ==
  /\ pc = "enc" /\ prod \in {"ERW", "RAW"} /\ enc.flushes < MaxFlush
  /\ enc' = ErwFlushOp(enc)
  /\ UNCHANGED <<pc, compress, prod, sink, written, wire, lib>>
  /\ ConsumersIdle

\* The sink starts to reject what it is given: everything, or flushes.
SinkFails(kind) ==
  /\ pc = "enc" /\ enc.bad = "no"
  /\ enc' = [enc EXCEPT !.bad = kind]
  /\ UNCHANGED <<pc, compress, prod, sink, written, wire, lib>>
  /\ ConsumersIdle

\* The sink accepts records again.
SinkRecovers ==
  /\ pc = "enc" /\ enc.bad = "all"
  /\ enc' = [enc EXCEPT !.bad = "no"]
  /\ UNCHANGED <<pc, compress, prod, sink, written, wire, lib>>
  /\ ConsumersIdle

\* The writer is discarded without into_inner.
ErwDrop ==
  /\ pc = "enc" /\ prod \in {"ERW", "RAW"} /\ enc.inner
  /\ LET r == ErwDropOp(enc, sink) IN
       /\ enc' = r.e
       /\ sink' = r.sink
  /\ pc' = "gone"
  /\ UNCHANGED <<compress, prod, written, wire, lib>>
  /\ ConsumersIdle

EwWrite(buf) ==
  /\ CanWrite /\ prod = "EW"
  /\ LET r == EwWriteOp(enc, sink, buf) IN
       /\ enc' = r.e
       /\ sink' = r.sink
       /\ written' = IF r.e.res = "ok" THEN Append(written, buf) ELSE written
  /\ UNCHANGED <<pc, compress, prod, wire, lib>>
  /\ ConsumersIdle

\* io::Write::flush of EncryptingWriter: Ok(()), nothing else. res records
\* that the last call was a flush that returned Ok.
EwFlushOp(e) == [e EXCEPT !.res = "flushed"]

EwFlush ==
  /\ pc = "enc" /\ prod = "EW"
  /\ enc' = EwFlushOp(enc)
  /\ UNCHANGED <<pc, compress, prod, sink, written, wire, lib>>
  /\ ConsumersIdle

EwDiscardOp_Finalizes(e, snk) ==
  LET r == EwWriteRecordInternal(e, snk, <<>>, "Final") IN
  [e |-> [r.e EXCEPT !.res = "discarded"], sink |-> r.sink]

\* An EncryptingWriter goes out of scope: the struct has no Drop, its fields
\* are dropped and nothing is written.
EwDiscardOp(e, snk) == [e |-> [e EXCEPT !.res = "discarded"], sink |-> snk]

\* The writer is discarded without into_inner; the sink holds what it was
\* given.
EwDiscard ==
  /\ pc = "enc" /\ prod = "EW" /\ enc.inner
  /\ LET r == EwDiscardOp(enc, sink) IN
       /\ enc' = r.e
       /\ sink' = r.sink
       /\ wire' = r.sink
  /\ pc' = "wire"
  /\ UNCHANGED <<compress, prod, written, lib>>
  /\ ConsumersIdle

\* EncryptingWriter::into_inner: an empty Final chunk, then the sink.
EwIntoInner ==
  /\ pc = "enc" /\ prod = "EW" /\ enc.inner
  /\ LET r == EwWriteRecordInternal(enc, sink, <<>>, "Final") IN
       /\ sink' = r.sink
       /\ IF r.e.res = "ok"
          THEN /\ enc' = [r.e EXCEPT !.inner = FALSE]
               /\ wire' = r.sink
               /\ pc' = "wire"
          ELSE /\ enc' = r.e
               /\ wire' = <<>>
               /\ pc' = "done"
  /\ UNCHANGED <<compress, prod, written, lib>>
  /\ ConsumersIdle

\* ------------------------------------------------------------ in transit
\* Someone appends a record to the ciphertext of an EncryptingRecordWriter:
\* junk, or a copy of its last record.
Tamper(rec) ==
  /\ pc = "wire" /\ prod = "ERW" /\ tampered = 0
  /\ wire' = Append(wire, rec)
  /\ tampered' = tampered + 1
  /\ UNCHANGED <<pc, compress, prod, sink, enc, written, dkey, drw, drr, dr, lib>>

\* ------------------------------------------------------------ DecryptingRecordWriter
DrwNew ==
  /\ pc = "drw" /\ drw.state = "Idle"
  /\ drw' = DrwNewState(dkey)
  /\ UNCHANGED <<pc, compress, prod, sink, enc, written, wire, tampered, dkey,
                 drr, dr, lib>>

DrwWriteInternal_ForgetsBuffer(out, buf, cleartext, comp) ==
  IF comp
  THEN LET v == Decompress(cleartext) IN
       IF v.ok THEN [ok |-> TRUE, out |-> Append(out, v.v)]
       ELSE [ok |-> FALSE, out |-> out]
  ELSE [ok |-> TRUE, out |-> Append(out, cleartext)]

DrwWriteInternal_PerChunk(out, buf, cleartext, comp) ==
  IF comp
  THEN LET v == Decompress(cleartext) IN
       IF v.ok THEN [ok |-> TRUE, out |-> Append(out, buf \o v.v)]
       ELSE [ok |-> FALSE, out |-> out]
  ELSE [ok |-> TRUE, out |-> Append(out, buf \o cleartext)]

\* DecryptingRecordWriter::write_internal: the buffer followed by the
\* cleartext is one unit, decompressed as a whole. [ok, out]; the buffer is
\* empty afterwards.
DrwWriteInternal(out, buf, cleartext, comp) ==
  LET data == IF buf = <<>> THEN cleartext ELSE buf \o cleartext IN
  IF comp
  THEN LET v == Decompress(data) IN
       IF v.ok THEN [ok |-> TRUE, out |-> Append(out, v.v)]
       ELSE [ok |-> FALSE, out |-> out]
  ELSE [ok |-> TRUE, out |-> Append(out, data)]

DrwLost_Restored(d) == [d EXCEPT !.res = "err"]

\* What is left of the writer when write_record returns early: inner was
\* taken and is not put back.
DrwLost(d) == [d EXCEPT !.inner = FALSE, !.res = "err"]

DrwFinal_DropsPayload(d, r) ==
  IF d.buf # <<>>
  THEN LET w == DrwWriteInternal(d.out, d.buf, <<>>, compress) IN
       IF w.ok
       THEN [d EXCEPT !.state = "Finished", !.stream = r.stream,
                      !.buf = <<>>, !.out = w.out, !.res = "ok"]
       ELSE DrwLost(d)
  ELSE [d EXCEPT !.state = "Finished", !.stream = r.stream, !.res = "ok"]

DrwFinal_StaysWantData(d, r) ==
  IF r.p # <<>> \/ d.buf # <<>>
  THEN LET w == DrwWriteInternal(d.out, d.buf, r.p, compress) IN
       IF w.ok
       THEN [d EXCEPT !.stream = r.stream, !.buf = <<>>, !.out = w.out,
                      !.res = "ok"]
       ELSE DrwLost(d)
  ELSE [d EXCEPT !.stream = r.stream, !.res = "ok"]

DrwFinal_AlwaysWrites(d, r) ==
  LET w == DrwWriteInternal(d.out, d.buf, r.p, compress) IN
  IF w.ok
  THEN [d EXCEPT !.state = "Finished", !.stream = r.stream,
                 !.buf = <<>>, !.out = w.out, !.res = "ok"]
  ELSE DrwLost(d)

\* The Final arm of write_record: r is the pulled chunk.
DrwFinal(d, r) ==
  IF r.p # <<>> \/ d.buf # <<>>
  THEN LET w == DrwWriteInternal(d.out, d.buf, r.p, compress) IN
       IF w.ok
       THEN [d EXCEPT !.state = "Finished", !.stream = r.stream,
                      !.buf = <<>>, !.out = w.out, !.res = "ok"]
       ELSE DrwLost(d)
  ELSE [d EXCEPT !.state = "Finished", !.stream = r.stream, !.res = "ok"]

DrwRekey_AsPush(d, r) ==
  LET w == DrwWriteInternal(d.out, d.buf, r.p, compress) IN
  IF w.ok
  THEN [d EXCEPT !.stream = r.stream, !.buf = <<>>, !.out = w.out,
                 !.res = "ok"]
  ELSE DrwLost(d)

DrwMessage_Emits(d, r) ==
  [d EXCEPT !.stream = r.stream, !.out = Append(d.out, r.p), !.res = "ok"]

DrwMessage_Prepends(d, r) ==
  [d EXCEPT !.stream = r.stream, !.buf = r.p \o d.buf, !.res = "ok"]

\* The Message arm of write_record: append to the buffer.
DrwMessage(d, r) ==
  [d EXCEPT !.stream = r.stream, !.buf = d.buf \o r.p, !.res = "ok"]

DrwPush_KeepsBuffer(d, r) ==
  LET w == DrwWriteInternal(d.out, d.buf, r.p, compress) IN
  IF w.ok
  THEN [d EXCEPT !.stream = r.stream, !.out = w.out, !.res = "ok"]
  ELSE DrwLost(d)

\* The Push arm of write_record: write the unit, the buffer is cleared.
DrwPush(d, r) ==
  LET w == DrwWriteInternal(d.out, d.buf, r.p, compress) IN
  IF w.ok
  THEN [d EXCEPT !.stream = r.stream, !.buf = <<>>, !.out = w.out,
                 !.res = "ok"]
  ELSE DrwLost(d)

\* The Rekey arm of write_record: bail.
DrwRekey(d, r) == DrwLost(d)

\* The WantData arm of write_record.
DrwWantData(d, data) ==
  IF d.stream.fin THEN DrwLost(d)
  ELSE LET r == Pull(d.stream, data) IN
    IF ~r.ok THEN DrwLost(d)
    ELSE CASE r.tag = "Final" -> DrwFinal(d, r)
           [] r.tag = "Message" -> DrwMessage(d, r)
           [] r.tag = "Rekey" -> DrwRekey(d, r)
           [] r.tag = "Push" -> DrwPush(d, r)

DrwWriteRecordOp_StaysWantHeader(d, data) ==
  IF ~d.inner THEN [d EXCEPT !.res = "err"]
  ELSE CASE d.state = "WantHeader" ->
              IF HeaderFromSlice(data)
              THEN [d EXCEPT !.res = "ok"]
              ELSE DrwLost(d)
         [] d.state = "WantData" -> DrwWantData(d, data)
         [] d.state = "Finished" -> [d EXCEPT !.res = "err"]

DrwWriteRecordOp_FinishedReopens(d, data) ==
  IF ~d.inner THEN [d EXCEPT !.res = "err"]
  ELSE CASE d.state = "WantHeader" ->
              IF HeaderFromSlice(data)
              THEN [d EXCEPT !.state = "WantData", !.res = "ok"]
              ELSE DrwLost(d)
         [] d.state = "WantData" -> DrwWantData(d, data)
         [] d.state = "Finished" ->
              [d EXCEPT !.state = "WantData", !.res = "err"]

DrwWriteRecordOp_FinishedNotRestored(d, data) ==
  IF ~d.inner THEN [d EXCEPT !.res = "err"]
  ELSE CASE d.state = "WantHeader" ->
              IF HeaderFromSlice(data)
              THEN [d EXCEPT !.state = "WantData", !.res = "ok"]
              ELSE DrwLost(d)
         [] d.state = "WantData" -> DrwWantData(d, data)
         [] d.state = "Finished" -> DrwLost(d)

\* DecryptingRecordWriter::write_record.
DrwWriteRecordOp(d, data) ==
  IF ~d.inner THEN [d EXCEPT !.res = "err"]
  ELSE CASE d.state = "WantHeader" ->
              IF HeaderFromSlice(data)
              THEN [d EXCEPT !.state = "WantData", !.res = "ok"]
              ELSE DrwLost(d)
         [] d.state = "WantData" -> DrwWantData(d, data)
         [] d.state = "Finished" -> [d EXCEPT !.res = "err"]

\* The caller passes the next record of the ciphertext and, past its end, the
\* last record again.
DrwWriteRecord ==
  /\ pc = "drw" /\ drw.state # "Idle" /\ drw.pos <= Len(wire) + MaxExtra
  /\ drw' = [DrwWriteRecordOp(drw, wire[Min(drw.pos, Len(wire))])
               EXCEPT !.pos = drw.pos + 1]
  /\ UNCHANGED <<pc, compress, prod, sink, enc, written, wire, tampered, dkey,
                 drr, dr, lib>>

DrwIntoInnerOp_RequiresFinished(d) ==
  IF ~d.inner \/ d.state # "Finished" THEN [d EXCEPT !.closed = "err"]
  ELSE [d EXCEPT !.inner = FALSE, !.closed = "ok"]

\* DecryptingRecordWriter::into_inner: flush a residual buffer, give the
\* sink back.
DrwIntoInnerOp(d) ==
  IF ~d.inner THEN [d EXCEPT !.closed = "err"]
  ELSE IF d.buf # <<>>
       THEN LET w == DrwWriteInternal(d.out, d.buf, <<>>, compress) IN
            IF w.ok
            THEN [d EXCEPT !.inner = FALSE, !.buf = <<>>, !.out = w.out,
                           !.closed = "ok"]
            ELSE [d EXCEPT !.inner = FALSE, !.closed = "panic"]
       ELSE [d EXCEPT !.inner = FALSE, !.closed = "ok"]

DrwIntoInner ==
  /\ pc = "drw" /\ drw.state # "Idle" /\ drw.pos > Len(wire)
  /\ drw' = DrwIntoInnerOp(drw)
  /\ pc' = "done"
  /\ UNCHANGED <<compress, prod, sink, enc, written, wire, tampered, dkey,
                 drr, dr, lib>>

\* The caller stops before the end of the ciphertext: what it passed is the
\* ciphertext cut off at a record boundary.
DrwIntoInnerEarly ==
  /\ pc = "drw" /\ drw.state # "Idle" /\ drw.pos <= Len(wire)
  /\ drw' = DrwIntoInnerOp(drw)
  /\ pc' = "done"
  /\ UNCHANGED <<compress, prod, sink, enc, written, wire, tampered, dkey,
                 drr, dr, lib>>

DrwDropOp_KeepsBuffer(d) ==
  IF ~d.inner THEN [d EXCEPT !.closed = "dropped"]
  ELSE [d EXCEPT !.closed = "dropped"]

\* Drop for DecryptingRecordWriter: nothing once the tuple is gone; else
\* flush a residual buffer, panicking when that fails, and flush the sink.
DrwDropOp(d) ==
  IF ~d.inner THEN [d EXCEPT !.closed = "dropped"]
  ELSE IF d.buf # <<>>
       THEN LET w == DrwWriteInternal(d.out, d.buf, <<>>, compress) IN
            IF w.ok
            THEN [d EXCEPT !.buf = <<>>, !.out = w.out, !.closed = "dropped",
                           !.flushes = d.flushes + 1]
            ELSE [d EXCEPT !.closed = "panic"]
       ELSE [d EXCEPT !.closed = "dropped", !.flushes = d.flushes + 1]

DrwFlushOp_FlushesBuffer(d) ==
  IF ~d.inner THEN [d EXCEPT !.res = "err"]
  ELSE IF d.buf # <<>>
       THEN LET w == DrwWriteInternal(d.out, d.buf, <<>>, compress) IN
            IF w.ok
            THEN [d EXCEPT !.buf = <<>>, !.out = w.out, !.res = "ok",
                           !.flushes = d.flushes + 1]
            ELSE [d EXCEPT !.res = "err"]
       ELSE [d EXCEPT !.flushes = d.flushes + 1, !.res = "ok"]

\* DecryptingRecordWriter::flush: the downstream sink is flushed.
DrwFlushOp(d) ==
  IF ~d.inner THEN [d EXCEPT !.res = "err"]
  ELSE [d EXCEPT !.flushes = d.flushes + 1, !.res = "ok"]

DrwFlush ==
  /\ pc = "drw" /\ drw.state # "Idle" /\ drw.flushes < MaxFlush
  /\ drw' = DrwFlushOp(drw)
  /\ UNCHANGED <<pc, compress, prod, sink, enc, written, wire, tampered, dkey,
                 drr, dr, lib>>

\* The caller hands the ciphertext to a DecryptingRecordWriter only.
DrwStart ==
  /\ pc = "wire"
  /\ pc' = "drw"
  /\ UNCHANGED <<compress, prod, sink, enc, written, wire, tampered, dkey,
                 drw, drr, dr, lib>>

\* The writer is discarded without into_inner.
DrwDrop ==
  /\ pc = "drw" /\ drw.state # "Idle" /\ drw.pos > Len(wire)
  /\ drw' = DrwDropOp(drw)
  /\ pc' = "gone"
  /\ UNCHANGED <<compress, prod, sink, enc, written, wire, tampered, dkey,
                 drr, dr, lib>>

\* ------------------------------------------------------------ DecryptingRecordReader
Some(v) == [t |-> "some", v |-> v]
None == [t |-> "none", v |-> <<>>]
Err == [t |-> "err", v |-> <<>>]

\* DecryptingRecordReader::new: read the header record, init_pull.
DrrNewOp(key) ==
  IF wire # <<>> /\ HeaderFromSlice(wire[1])
  THEN [DrrIdle EXCEPT !.made = TRUE, !.pos = 2, !.some = TRUE,
                       !.stream = InitStream(key)]
  ELSE DrrIdle

DrrNew ==
  /\ pc = "drr" /\ ~drr.made
  /\ drr' = DrrNewOp(dkey)
  /\ pc' = IF drr'.made THEN "drr" ELSE "drw"
  /\ UNCHANGED <<compress, prod, sink, enc, written, wire, tampered, dkey,
                 drw, dr, lib>>

\* DecryptingRecordReader::maybe_read_record_internal: pull records until a
\* Push or a Final chunk, or the end of the source. [ok, some, stream, pos,
\* buf, cleartext].
RECURSIVE DrrMaybeReadRecordInternal(_, _, _)
DrrMaybeReadRecordInternal(stream, pos, buf) ==
  IF pos > Len(wire)
  THEN [ok |-> TRUE, some |-> FALSE, stream |-> stream, pos |-> pos,
        buf |-> buf, cleartext |-> <<>>]
  ELSE LET r == Pull(stream, wire[pos]) IN
    IF ~r.ok
    THEN [ok |-> FALSE, some |-> FALSE, stream |-> stream, pos |-> pos + 1,
          buf |-> buf, cleartext |-> <<>>]
    ELSE CASE r.tag = "Final" ->
                [ok |-> TRUE, some |-> FALSE, stream |-> r.stream,
                 pos |-> pos + 1, buf |-> buf, cleartext |-> r.p]
           [] r.tag = "Message" ->
                DrrMaybeReadRecordInternal(r.stream, pos + 1, buf \o r.p)
           [] r.tag = "Rekey" ->
                [ok |-> FALSE, some |-> FALSE, stream |-> r.stream,
                 pos |-> pos + 1, buf |-> buf, cleartext |-> <<>>]
           [] r.tag = "Push" ->
                [ok |-> TRUE, some |-> TRUE, stream |-> r.stream,
                 pos |-> pos + 1, buf |-> buf, cleartext |-> r.p]

DrrReturn(r, x) ==
  [r EXCEPT !.ret = Append(r.ret, x),
            !.ends = IF x.t = "some" THEN r.ends ELSE r.ends + 1]

DrrEmptyUnit_EndOfStream(r) == DrrReturn(r, None)

\* maybe_read_record with nothing buffered and nothing pulled: an empty
\* record while the stream is live, the end once it is gone.
DrrEmptyUnit(r) ==
  IF r.some THEN DrrReturn(r, Some(<<>>)) ELSE DrrReturn(r, None)

\* DecryptingRecordReader::maybe_read_record.
DrrMaybeReadRecordOp(r) ==
  IF ~r.some THEN DrrReturn(r, None)
  ELSE IF r.stream.fin THEN DrrReturn([r EXCEPT !.some = FALSE], Err)
  ELSE LET i == DrrMaybeReadRecordInternal(r.stream, r.pos, <<>>)
           n == [r EXCEPT !.pos = i.pos, !.buf = i.buf]
       IN
    IF ~i.ok THEN DrrReturn([n EXCEPT !.some = FALSE], Err)
    ELSE LET m == [n EXCEPT !.some = i.some, !.stream = i.stream] IN
      IF i.buf = <<>> /\ i.cleartext = <<>>
      THEN DrrEmptyUnit(m)
      ELSE LET data == i.buf \o i.cleartext IN
        IF compress
        THEN LET v == Decompress(data) IN
             IF v.ok THEN DrrReturn([m EXCEPT !.buf = v.v], Some(v.v))
             ELSE DrrReturn([m EXCEPT !.buf = <<>>], Err)
        ELSE DrrReturn([m EXCEPT !.buf = data], Some(data))

DrrMaybeReadRecord ==
  /\ pc = "drr" /\ drr.made /\ drr.ends <= MaxExtra
  /\ drr' = DrrMaybeReadRecordOp(drr)
  /\ UNCHANGED <<pc, compress, prod, sink, enc, written, wire, tampered, dkey,
                 drw, dr, lib>>

\* DecryptingRecordReader::into_inner: the caller is done with the reader.
DrrIntoInner ==
  /\ pc = "drr" /\ drr.made /\ drr.ends > MaxExtra
  /\ pc' = "drw"
  /\ UNCHANGED <<compress, prod, sink, enc, written, wire, tampered, dkey,
                 drw, drr, dr, lib>>

\* ------------------------------------------------------------ DecryptingReader
\* DecryptingReader::new: read the header record, init_pull.
DrNewOp(key) ==
  IF wire # <<>> /\ HeaderFromSlice(wire[1])
  THEN [DrIdle EXCEPT !.made = TRUE, !.pos = 2, !.stream = InitStream(key)]
  ELSE DrIdle

\* The consumers are built with a key of the caller's choice; a wrong key is
\* tried on untampered EncryptingRecordWriter streams.
DrNew(key) ==
  /\ pc = "wire"
  /\ key # EncKey => prod = "ERW" /\ tampered = 0
  /\ dkey' = key
  /\ dr' = DrNewOp(key)
  /\ pc' = IF dr'.made THEN "dr" ELSE "drr"
  /\ UNCHANGED <<compress, prod, sink, enc, written, wire, tampered, drw, drr, lib>>

\* DecryptingReader::fill_buf_internal up to the slice it returns: while the
\* queue is empty, pull the next record and decode it into the queue.
\* [ok, eof, d].
RECURSIVE DrFillBufInternal(_)
DrFillBufInternal_EmptyIsEnd(d) ==
  IF d.q # <<>> THEN [ok |-> TRUE, eof |-> FALSE, d |-> d]
  ELSE IF d.pos > Len(wire) THEN [ok |-> TRUE, eof |-> TRUE, d |-> d]
  ELSE LET r == Pull(d.stream, wire[d.pos])
           n == [d EXCEPT !.pos = d.pos + 1]
       IN
    IF ~r.ok THEN [ok |-> FALSE, eof |-> FALSE, d |-> n]
    ELSE IF compress /\ r.p # <<>>
         THEN LET v == Decompress(r.p) IN
              IF v.ok
              THEN DrFillBufInternal([n EXCEPT !.stream = r.stream, !.q = v.v])
              ELSE [ok |-> FALSE, eof |-> FALSE,
                    d |-> [n EXCEPT !.stream = r.stream]]
         ELSE IF r.p = <<>>
              THEN [ok |-> TRUE, eof |-> TRUE,
                    d |-> [n EXCEPT !.stream = r.stream]]
              ELSE DrFillBufInternal([n EXCEPT !.stream = r.stream,
                                               !.q = r.p])

DrFillBufInternal_AlwaysPulls(d) ==
  IF d.pos > Len(wire) THEN [ok |-> TRUE, eof |-> d.q = <<>>, d |-> d]
  ELSE LET r == Pull(d.stream, wire[d.pos])
           n == [d EXCEPT !.pos = d.pos + 1]
       IN
    IF ~r.ok THEN [ok |-> FALSE, eof |-> FALSE, d |-> n]
    ELSE LET v == IF compress /\ r.p # <<>> THEN Decompress(r.p)
                  ELSE [ok |-> TRUE, v |-> r.p]
             x == [n EXCEPT !.stream = r.stream, !.q = d.q \o v.v]
         IN
      IF ~v.ok THEN [ok |-> FALSE, eof |-> FALSE,
                     d |-> [n EXCEPT !.stream = r.stream]]
      ELSE IF x.q # <<>> THEN [ok |-> TRUE, eof |-> FALSE, d |-> x]
      ELSE DrFillBufInternal(x)

DrFillBufInternal_DecompressesEmpty(d) ==
  IF d.q # <<>> THEN [ok |-> TRUE, eof |-> FALSE, d |-> d]
  ELSE IF d.pos > Len(wire) THEN [ok |-> TRUE, eof |-> TRUE, d |-> d]
  ELSE LET r == Pull(d.stream, wire[d.pos])
           n == [d EXCEPT !.pos = d.pos + 1]
       IN
    IF ~r.ok THEN [ok |-> FALSE, eof |-> FALSE, d |-> n]
    ELSE IF compress
         THEN LET v == Decompress(r.p) IN
              IF v.ok
              THEN DrFillBufInternal([n EXCEPT !.stream = r.stream, !.q = v.v])
              ELSE [ok |-> FALSE, eof |-> FALSE,
                    d |-> [n EXCEPT !.stream = r.stream]]
         ELSE DrFillBufInternal([n EXCEPT !.stream = r.stream, !.q = r.p])

DrFillBufInternal(d) ==
  IF d.q # <<>> THEN [ok |-> TRUE, eof |-> FALSE, d |-> d]
  ELSE IF d.pos > Len(wire) THEN [ok |-> TRUE, eof |-> TRUE, d |-> d]
  ELSE LET r == Pull(d.stream, wire[d.pos])
           n == [d EXCEPT !.pos = d.pos + 1]
       IN
    IF ~r.ok THEN [ok |-> FALSE, eof |-> FALSE, d |-> n]
    ELSE IF compress /\ r.p # <<>>
         THEN LET v == Decompress(r.p) IN
              IF v.ok
              THEN DrFillBufInternal([n EXCEPT !.stream = r.stream, !.q = v.v])
              ELSE [ok |-> FALSE, eof |-> FALSE,
                    d |-> [n EXCEPT !.stream = r.stream]]
         ELSE DrFillBufInternal([n EXCEPT !.stream = r.stream, !.q = r.p])

DrReadInternal_NoEof(d, n, h) ==
  LET f == DrFillBufInternal(d) IN
  IF ~f.ok THEN [f.d EXCEPT !.last = "err", !.ends = d.ends + 1]
  ELSE IF f.eof THEN [f.d EXCEPT !.last = "data"]
  ELSE LET nread == Min(Min(h, Len(f.d.q)), n) IN
       [f.d EXCEPT !.q = SubSeq(f.d.q, nread + 1, Len(f.d.q)),
                   !.got = d.got \o SubSeq(f.d.q, 1, nread),
                   !.last = "data"]

DrReadInternal_DropsRest(d, n, h) ==
  LET f == DrFillBufInternal(d) IN
  IF ~f.ok THEN [f.d EXCEPT !.last = "err", !.ends = d.ends + 1]
  ELSE IF f.eof THEN [f.d EXCEPT !.last = "eof", !.ends = d.ends + 1]
  ELSE LET nread == Min(Min(h, Len(f.d.q)), n) IN
       [f.d EXCEPT !.q = <<>>,
                   !.got = d.got \o SubSeq(f.d.q, 1, nread),
                   !.last = "data"]

\* DecryptingReader::read_internal into a buffer of n bytes; the slice
\* fill_buf returns is the first h bytes of the queue (VecDeque::as_slices).
DrReadInternal(d, n, h) ==
  LET f == DrFillBufInternal(d) IN
  IF ~f.ok THEN [f.d EXCEPT !.last = "err", !.ends = d.ends + 1]
  ELSE IF f.eof THEN [f.d EXCEPT !.last = "eof", !.ends = d.ends + 1]
  ELSE LET nread == Min(Min(h, Len(f.d.q)), n) IN
       [f.d EXCEPT !.q = SubSeq(f.d.q, nread + 1, Len(f.d.q)),
                   !.got = d.got \o SubSeq(f.d.q, 1, nread),
                   !.last = "data"]

DrRead(n, h) ==
  /\ pc = "dr" /\ dr.made /\ dr.ends <= MaxExtra
  /\ dr' = DrReadInternal(dr, n, h)
  /\ UNCHANGED <<pc, compress, prod, sink, enc, written, wire, tampered, dkey,
                 drw, drr, lib>>

\* DecryptingReader::into_inner: the caller is done with the reader.
DrIntoInner ==
  /\ pc = "dr" /\ dr.made /\ dr.ends > MaxExtra
  /\ pc' = "drr"
  /\ UNCHANGED <<compress, prod, sink, enc, written, wire, tampered, dkey,
                 drw, drr, dr, lib>>

\* ------------------------------------------------------------ lib.rs
\* The whole-buffer ciphertext is a byte string. A byte of it is a cell
\* [k, v]: a length byte or an appended byte with its value, the header, or a
\* byte of a chunk. A chunk is its authenticated part (the tag and MAC, which
\* bind the key, the position, the tag and the payload) and one cell per
\* payload byte.
LenCell(n) == [k |-> "len", v |-> n]
RawCell(n) == [k |-> "raw", v |-> n]
HdrCell == [k |-> "hdr", v |-> 0]

Seal(c) ==
  <<[k |-> "mac", v |-> c]>> \o [i \in 1..Len(c.p) |-> [k |-> "ct", v |-> c.p[i]]]

\* The chunk a record of the byte string is, Junk when it is none.
Open(rec) ==
  IF rec # <<>> /\ rec[1].k = "mac" /\ rec = Seal(rec[1].v)
  THEN rec[1].v ELSE Junk

\* The value of a byte read as a length byte; the bytes of a header or of a
\* chunk, if ever read as a length, stand for a large one.
ByteVal(cell) == IF cell.k \in {"len", "raw"} THEN cell.v ELSE 127

\* u32::to_be_bytes
ToBeBytes(n) ==
  <<LenCell((n \div 16777216) % 256), LenCell((n \div 65536) % 256),
    LenCell((n \div 256) % 256), LenCell(n % 256)>>

ToLeBytes(n) ==
  <<LenCell(n % 256), LenCell((n \div 256) % 256),
    LenCell((n \div 65536) % 256), LenCell((n \div 16777216) % 256)>>

\* u32::from_be_bytes
FromBeBytes(b) ==
  ByteVal(b[1]) * 16777216 + ByteVal(b[2]) * 65536 + ByteVal(b[3]) * 256
    + ByteVal(b[4])

LibWriteRecord_LittleEndian(w, record) == w \o ToLeBytes(Len(record)) \o record

\* write_record: the length as u32, big endian, then the record (the records
\* of the model are far shorter than 2^32 bytes).
LibWriteRecord(w, record) == w \o ToBeBytes(Len(record)) \o record

\* read_record from position pos of the byte string r: [ok, rec, pos]. No
\* byte left is an empty record; a length or a body cut short is an error.
LibReadRecord(r, pos) ==
  IF pos > Len(r) THEN [ok |-> TRUE, rec |-> <<>>, pos |-> pos]
  ELSE IF pos + 3 > Len(r) THEN [ok |-> FALSE, rec |-> <<>>, pos |-> Len(r) + 1]
  ELSE LET len == FromBeBytes(SubSeq(r, pos, pos + 3)) IN
       IF pos + 3 + len > Len(r)
       THEN [ok |-> FALSE, rec |-> <<>>, pos |-> Len(r) + 1]
       ELSE [ok |-> TRUE, rec |-> SubSeq(r, pos + 4, pos + 3 + len),
             pos |-> pos + 4 + len]

\* Header::from_slice: only a record of the header's length parses.
LibHeaderFromSlice(rec) == Len(rec) = 1

\* Stream::init_pull: a stream under another header pulls nothing.
LibInitPull(rec, key) ==
  IF rec = <<HdrCell>> THEN InitStream(key) ELSE InitStream("none")

LibFail(l) == [l EXCEPT !.pc = "done", !.res = "err"]

\* symmetric_encrypt_sign_file up to its loop: the header record, then an
\* empty Message chunk.
LibEncStartOp(l, input) ==
  LET s0 == InitStream(EncKey)
      m == Push(s0, <<>>, "Message")
  IN [l EXCEPT !.pc = "enc", !.input = input, !.rpos = 0, !.es = m.stream,
               !.ct = LibWriteRecord(LibWriteRecord(<<>>, <<HdrCell>>),
                                     Seal(m.c))]

\* One turn of the loop: fill_buf returns a block of n bytes, pushed as one
\* Push chunk, then consumed.
LibEncBlockOp(l, n) ==
  LET data == SubSeq(l.input, l.rpos + 1, l.rpos + n)
      m == Push(l.es, data, "Push")
  IN [l EXCEPT !.rpos = l.rpos + n, !.es = m.stream,
               !.ct = LibWriteRecord(l.ct, Seal(m.c))]

\* fill_buf returned nothing: leave the loop, push an empty Final chunk.
LibEncFinishOp(l) ==
  LET m == Push(l.es, <<>>, "Final")
  IN [l EXCEPT !.pc = "sent", !.es = m.stream,
               !.ct = LibWriteRecord(l.ct, Seal(m.c))]

LibDecStartOp_AnyFirstChunk(l, key) ==
  LET k == [l EXCEPT !.dkey = key]
      h == LibReadRecord(l.ct, 1)
  IN
  IF ~h.ok \/ ~LibHeaderFromSlice(h.rec) THEN LibFail(k)
  ELSE LET s0 == LibInitPull(h.rec, key)
           f == LibReadRecord(l.ct, h.pos)
       IN
    IF ~f.ok \/ s0.fin THEN LibFail(k)
    ELSE LET m == Pull(s0, Open(f.rec)) IN
      IF ~m.ok THEN LibFail(k)
      ELSE [k EXCEPT !.pc = "dec", !.dpos = f.pos, !.ds = m.stream,
                     !.plain = m.p]

\* symmetric_decrypt_verify_file up to its loop: the header record, init_pull,
\* then a first chunk that must be an empty Message.
LibDecStartOp(l, key) ==
  LET k == [l EXCEPT !.dkey = key]
      h == LibReadRecord(l.ct, 1)
  IN
  IF ~h.ok \/ ~LibHeaderFromSlice(h.rec) THEN LibFail(k)
  ELSE LET s0 == LibInitPull(h.rec, key)
           f == LibReadRecord(l.ct, h.pos)
       IN
    IF ~f.ok \/ s0.fin THEN LibFail(k)
    ELSE LET m == Pull(s0, Open(f.rec)) IN
      IF ~m.ok \/ m.tag # "Message" \/ m.p # <<>> THEN LibFail(k)
      ELSE [k EXCEPT !.pc = "dec", !.dpos = f.pos, !.ds = m.stream]

LibDecStepOp_EofIsEnd(l) ==
  LET f == LibReadRecord(l.ct, l.dpos) IN
  IF ~f.ok THEN LibFail(l)
  ELSE IF f.rec = <<>> THEN [l EXCEPT !.pc = "done", !.res = "ok"]
  ELSE LET m == Pull(l.ds, Open(f.rec)) IN
    IF ~m.ok THEN LibFail(l)
    ELSE IF m.stream.fin # (m.tag = "Final") THEN LibFail(l)
    ELSE IF m.stream.fin
         THEN LET e == LibReadRecord(l.ct, f.pos) IN
              IF ~e.ok \/ e.rec # <<>> THEN LibFail(l)
              ELSE [l EXCEPT !.pc = "done", !.res = "ok", !.dpos = e.pos,
                             !.ds = m.stream]
         ELSE [l EXCEPT !.dpos = f.pos, !.ds = m.stream,
                        !.plain = l.plain \o m.p]

\* One turn of the loop of symmetric_decrypt_verify_file.
LibDecStepOp(l) ==
  LET f == LibReadRecord(l.ct, l.dpos) IN
  IF ~f.ok THEN LibFail(l)
  ELSE LET m == Pull(l.ds, Open(f.rec)) IN
    IF ~m.ok THEN LibFail(l)
    ELSE IF m.stream.fin # (m.tag = "Final") THEN LibFail(l)
    ELSE IF m.stream.fin
         THEN LET e == LibReadRecord(l.ct, f.pos) IN
              IF ~e.ok \/ e.rec # <<>> THEN LibFail(l)
              ELSE [l EXCEPT !.pc = "done", !.res = "ok", !.dpos = e.pos,
                             !.ds = m.stream]
         ELSE [l EXCEPT !.dpos = f.pos, !.ds = m.stream,
                        !.plain = l.plain \o m.p]

StreamIdle ==
  UNCHANGED <<pc, compress, prod, sink, enc, written, wire, tampered, dkey,
              drw, drr, dr>>

LibEncStart(input) ==
  /\ lib.pc = "idle"
  /\ lib' = LibEncStartOp(lib, input)
  /\ StreamIdle

LibEncBlock(n) ==
  /\ lib.pc = "enc" /\ n <= Len(lib.input) - lib.rpos
  /\ lib' = LibEncBlockOp(lib, n)
  /\ StreamIdle

LibEncFinish ==
  /\ lib.pc = "enc" /\ lib.rpos = Len(lib.input)
  /\ lib' = LibEncFinishOp(lib)
  /\ StreamIdle

\* Someone appends a byte to the ciphertext.
LibAppend(b) ==
  /\ lib.pc = "sent" /\ lib.appended < MaxAppend
  /\ lib' = [lib EXCEPT !.ct = Append(lib.ct, RawCell(b)),
                        !.appended = lib.appended + 1]
  /\ StreamIdle

\* The ciphertext loses its last bytes in transit: k of them are left.
LibCut(k) ==
  /\ lib.pc = "sent" /\ lib.appended = 0 /\ lib.cut = 0 /\ k < Len(lib.ct)
  /\ lib' = [lib EXCEPT !.ct = SubSeq(lib.ct, 1, k),
                        !.cut = Len(lib.ct) - k]
  /\ StreamIdle

LibDecStart(key) ==
  /\ lib.pc = "sent"
  /\ lib' = LibDecStartOp(lib, key)
  /\ StreamIdle

LibDecStep ==
  /\ lib.pc = "dec"
  /\ lib' = LibDecStepOp(lib)
  /\ StreamIdle

\* The records of a streaming writer's sink as a byte string, each record
\* behind its length as write_record of lib.rs frames it.
RECURSIVE Frame(_)
Frame(recs) ==
  IF recs = <<>> THEN <<>>
  ELSE LET rec == recs[Len(recs)] IN
       LibWriteRecord(Frame(SubSeq(recs, 1, Len(recs) - 1)),
                      IF rec = Header THEN <<HdrCell>> ELSE Seal(rec))

\* The ciphertext of a streaming writer is given to
\* symmetric_decrypt_verify_file.
LibDecStream(key) ==
  /\ pc = "wire" /\ lib.pc = "idle"
  /\ lib' = LibDecStartOp([lib EXCEPT !.ct = Frame(wire)], key)
  /\ pc' = "cross"
  /\ UNCHANGED <<compress, prod, sink, enc, written, wire, tampered, dkey,
                 drw, drr, dr>>

\* ------------------------------------------------------------ specification
Next ==
  \/ \E data \in Records : ErwWriteRecord(data)
  \/ \E c \in RawChunks : ErwWriteRecordInternal(c[1], c[2])
  \/ ErwIntoInner
  \/ ErwTakeInner
  \/ \E buf \in Records : EwWrite(buf)
  \/ EwIntoInner
  \/ \E rec \in {Junk} : Tamper(rec)
  \/ Tamper(wire[Len(wire)])
  \/ DrwNew
  \/ DrwWriteRecord
  \/ DrwIntoInner
  \/ DrwDrop
  \/ DrrNew
  \/ DrrMaybeReadRecord
  \/ DrrIntoInner
  \/ \E key \in Keys : DrNew(key)
  \/ \E n \in 1..MaxRead, h \in 1..MaxRead : DrRead(n, h)
  \/ DrIntoInner

Spec == Init /\ [][Next]_vars

\* The whole-buffer pair of lib.rs on its own.
InitFile ==
  /\ pc = "file"
  /\ compress = FALSE
  /\ prod = "ERW"
  /\ sink = <<>>
  /\ enc = [inner |-> FALSE, stream |-> NoStream, res |-> "new",
            bad |-> "no", flushes |-> 0, n |-> 0]
  /\ written = <<>>
  /\ wire = <<>>
  /\ tampered = 0
  /\ dkey = EncKey
  /\ drw = [DrwNewState(EncKey) EXCEPT !.inner = FALSE, !.state = "Idle"]
  /\ drr = DrrIdle
  /\ dr = DrIdle
  /\ lib = LibIdle

NextFile ==
  \/ \E input \in BytesUpTo(MaxBuf) : LibEncStart(input)
  \/ \E n \in 1..MaxBuf : LibEncBlock(n)
  \/ LibEncFinish
  \/ \E b \in Byte : LibAppend(b)
  \/ \E key \in Keys : LibDecStart(key)
  \/ LibDecStep

SpecFile == InitFile /\ [][NextFile]_vars

\* The whole-buffer pair on a ciphertext that is cut off, or added to, in
\* transit.
NextFileCut ==
  \/ \E input \in BytesUpTo(MaxBuf) : LibEncStart(input)
  \/ \E n \in 1..MaxBuf : LibEncBlock(n)
  \/ LibEncFinish
  \/ \E k \in 0..MaxCt : LibCut(k)
  \/ \E b \in Byte : lib.cut = 0 /\ LibAppend(b)
  \/ \E key \in Keys : LibDecStart(key)
  \/ LibDecStep

SpecFileCut == InitFile /\ [][NextFileCut]_vars

\* The life of an EncryptingRecordWriter over a sink that can fail, up to
\* into_inner or teardown.
InitTear == Init /\ prod \in {"ERW", "RAW"}

NextTear ==
  \/ \E data \in Records : ErwWriteRecord(data)
  \/ \E c \in RawChunks : ErwWriteRecordInternal(c[1], c[2])
  \/ ErwFlush
  \/ \E kind \in {"all", "flush"} : SinkFails(kind)
  \/ ErwIntoInner
  \/ ErwTakeInner
  \/ ErwDrop

SpecTear == InitTear /\ [][NextTear]_vars

\* The life of a DecryptingRecordWriter: write_record, flush, then
\* into_inner or teardown.
NextDrw ==
  \/ \E data \in Records : ErwWriteRecord(data)
  \/ \E c \in RawChunks : ErwWriteRecordInternal(c[1], c[2])
  \/ ErwIntoInner
  \/ ErwTakeInner
  \/ \E rec \in {Junk} : Tamper(rec)
  \/ DrwStart
  \/ DrwNew
  \/ DrwWriteRecord
  \/ DrwFlush
  \/ DrwIntoInner
  \/ DrwDrop

SpecDrw == InitTear /\ [][NextDrw]_vars

\* The consumers on the ciphertext of a compatibility producer, finalized or
\* not, whole or cut off at a record boundary.
InitTrunc == Init /\ prod = "RAW"

NextTrunc ==
  \/ \E c \in RawChunks : ErwWriteRecordInternal(c[1], c[2])
  \/ ErwIntoInner
  \/ ErwTakeInner
  \/ \E key \in {EncKey} : DrNew(key)
  \/ \E n \in 1..MaxRead, h \in 1..MaxRead : DrRead(n, h)
  \/ DrIntoInner
  \/ DrrNew
  \/ DrrMaybeReadRecord
  \/ DrrIntoInner
  \/ DrwNew
  \/ DrwWriteRecord
  \/ DrwIntoInnerEarly
  \/ DrwIntoInner

SpecTrunc == InitTrunc /\ [][NextTrunc]_vars

\* The life of an EncryptingWriter, and a DecryptingReader on what it left.
InitEw == Init /\ prod = "EW"

NextEw ==
  \/ \E buf \in Records : EwWrite(buf)
  \/ EwFlush
  \/ EwIntoInner
  \/ EwDiscard
  \/ \E key \in {EncKey} : DrNew(key)
  \/ \E n \in 1..MaxRead, h \in 1..MaxRead : DrRead(n, h)

SpecEw == InitEw /\ [][NextEw]_vars

\* The readers on a finite source, called by a caller that keeps reading
\* until it is told the end or an error.
InitLive == Init /\ prod = "RAW" /\ ~compress

NextLive ==
  \/ \E c \in RawChunks : ErwWriteRecordInternal(c[1], c[2])
  \/ ErwTakeInner
  \/ \E key \in {EncKey} : DrNew(key)
  \/ \E n \in 1..MaxRead, h \in 1..MaxRead : DrRead(n, h)
  \/ DrIntoInner
  \/ DrrNew
  \/ DrrMaybeReadRecord

SpecLive ==
  /\ InitLive /\ [][NextLive]_vars
  /\ WF_vars(\E n \in 1..MaxRead, h \in 1..MaxRead : DrRead(n, h))
  /\ WF_vars(DrrMaybeReadRecord)

\* A writer over a sink that rejects records for a while, and the readers on
\* what the sink holds in the end.
InitGap == Init /\ prod \in {"ERW", "EW"}

NextGap ==
  \/ \E data \in Records : ErwWriteRecord(data)
  \/ \E buf \in Records : EwWrite(buf)
  \/ \E kind \in {"all"} : SinkFails(kind)
  \/ SinkRecovers
  \/ ErwIntoInner
  \/ EwIntoInner
  \/ \E key \in {EncKey} : DrNew(key)
  \/ \E n \in 1..MaxRead, h \in 1..MaxRead : DrRead(n, h)
  \/ DrIntoInner
  \/ DrrNew
  \/ DrrMaybeReadRecord

SpecGap == InitGap /\ [][NextGap]_vars

\* A run is either a streaming run or a whole-buffer run.
InitAll == Init \/ InitFile

\* The whole-buffer decryption on its own ciphertexts and on those of the
\* streaming writers.
NextCross ==
  \/ \E data \in Records : ErwWriteRecord(data)
  \/ \E c \in RawChunks : ErwWriteRecordInternal(c[1], c[2])
  \/ ErwIntoInner
  \/ \E buf \in Records : EwWrite(buf)
  \/ EwIntoInner
  \/ \E key \in {EncKey} : LibDecStream(key)
  \/ \E input \in BytesUpTo(MaxBuf) : pc = "file" /\ LibEncStart(input)
  \/ \E n \in 1..MaxBuf : LibEncBlock(n)
  \/ LibEncFinish
  \/ \E key \in {EncKey} : LibDecStart(key)
  \/ LibDecStep

SpecCross == InitAll /\ [][NextCross]_vars


NextAll ==
  \/ Next
  \/ pc = "file" /\ NextFile

SpecAll == InitAll /\ [][NextAll]_vars

\* ------------------------------------------------------------ claims
IsPrefix(a, b) == Len(a) <= Len(b) /\ a = SubSeq(b, 1, Len(a))

\* The ciphertext reaches the consumers as produced, and they hold the key.
Untouched == tampered = 0 /\ dkey = EncKey

\* C1: records written with EncryptingRecordWriter.write_record and finalized
\* with into_inner, passed record by record to DecryptingRecordWriter (same
\* key, same compress): every write_record succeeds and into_inner leaves the
\* downstream sink holding exactly the written records, in order.
C1_RecordRoundTrip ==
  (prod = "ERW" /\ Untouched) =>
    /\ (pc = "drw" /\ drw.pos <= Len(wire) + 1 => drw.res # "err")
    /\ (drw.closed # "no" =>
          drw.closed = (IF pc = "gone" THEN "dropped" ELSE "ok")
            /\ drw.out = written)

C1_Witness ==
  /\ prod = "ERW" /\ Untouched /\ compress
  /\ drw.closed = "ok" /\ drw.pos = Len(wire) + 1
  /\ written = << <<>>, <<0, 1>> >>
  /\ drw.out = written

\* C2: over a finalized EncryptingRecordWriter stream the maybe_read_record
\* calls of DecryptingRecordReader return the written records in order, an
\* empty record as Some(empty), and None from the call after the last record
\* on.
C2_ReaderRoundTrip ==
  (prod = "ERW" /\ Untouched) =>
    /\ \A i \in 1..Len(drr.ret) :
         drr.ret[i] = IF i <= Len(written) THEN Some(written[i]) ELSE None
    /\ (pc \in {"drw", "done"} => Len(drr.ret) > Len(written))

C2_Witness ==
  /\ prod = "ERW" /\ Untouched
  /\ written = << <<>>, <<1>> >>
  /\ drr.ret = << Some(<<>>), Some(<<1>>), None >>

\* C3: the bytes DecryptingReader returns over a finalized EncryptingWriter
\* stream are, whatever the read sizes, a prefix of the concatenation of the
\* written buffers; no read fails; a read returns 0 exactly when every byte
\* has been returned (so the first read of a stream without writes returns 0).
C3_ByteStreamRoundTrip ==
  [][(prod = "EW" /\ Untouched /\ pc = "dr" /\ dr.made /\ dr' # dr) =>
       /\ dr'.last # "err"
       /\ IsPrefix(dr'.got, Flatten(written))
       /\ (dr'.last = "eof" <=> dr.got = Flatten(written) /\ dr.q = <<>>)
       /\ (dr'.last = "data" => Len(dr'.got) > Len(dr.got))]_vars

C3_Witness ==
  /\ prod = "EW" /\ Untouched /\ compress
  /\ written = << <<0, 1>>, <<1, 0>> >>
  /\ dr.last = "eof" /\ dr.got = <<0, 1, 1, 0>>

\* C4: symmetric_decrypt_verify(k, symmetric_encrypt_sign(k, x)) succeeds and
\* returns x, for every buffer x, the empty one included.
C4_WholeBufferRoundTrip ==
  (lib.pc = "done" /\ lib.appended = 0 /\ lib.dkey = EncKey) =>
    lib.res = "ok" /\ lib.plain = lib.input

C4_Witness ==
  /\ lib.pc = "done" /\ lib.appended = 0 /\ lib.dkey = EncKey
  /\ lib.input = <<0, 1, 1>> /\ lib.plain = <<0, 1, 1>> /\ lib.res = "ok"

\* What the consumers made of the stream, once each is done with it.
RECURSIVE DrrUnits(_)
DrrUnits(ret) ==
  IF ret = <<>> THEN <<>>
  ELSE IF Head(ret).t = "some" THEN <<Head(ret).v>> \o DrrUnits(Tail(ret))
  ELSE DrrUnits(Tail(ret))

DrrFailed == \E i \in 1..Len(drr.ret) : drr.ret[i] = Err

\* The DecryptingRecordWriter was passed the records of the ciphertext, each
\* once, and then into_inner was called.
DrwRanToEnd == pc = "done" /\ drw.closed # "no" /\ drw.pos = Len(wire) + 1

\* The ciphertext is a header and chunks tagged Message, Push or Final (a
\* Final chunk can only be the last one a stream pushes).
TagOf(rec) == IF rec.kind = "chunk" THEN rec.tag ELSE "none"

NoRekey == \A i \in 2..Len(wire) : TagOf(wire[i]) # "Rekey"

\* C5: on a header followed by Message, Push and Final chunks both
\* record-oriented consumers succeed or both fail, and when they succeed they
\* yield the same records.
C5_ConsumersAgree ==
  (prod \in {"ERW", "RAW"} /\ Untouched /\ NoRekey /\ DrwRanToEnd) =>
    /\ (drw.closed = "ok") <=> ~DrrFailed
    /\ drw.closed = "ok" => drw.out = DrrUnits(drr.ret)

\* C6: over a finalized EncryptingRecordWriter stream the bytes
\* DecryptingReader returns up to its end of stream are the concatenation of
\* the records DecryptingRecordWriter writes downstream.
C6_InterfacesAgree ==
  (prod = "ERW" /\ Untouched) =>
    /\ dr.last # "err"
    /\ DrwRanToEnd =>
         /\ drw.closed = "ok"
         /\ dr.last = "eof"
         /\ dr.got = Flatten(drw.out)

C6_Witness ==
  /\ prod = "ERW" /\ Untouched /\ DrwRanToEnd /\ compress
  /\ drw.out = << <<1, 0>>, <<0>> >>
  /\ dr.got = <<1, 0, 0>>

\* The payloads of the chunks wire[i..j], concatenated.
RECURSIVE Payloads(_, _)
Payloads(i, j) == IF i > j THEN <<>> ELSE wire[i].p \o Payloads(i + 1, j)

\* The units of the chunks from wire[i] on: each run of Message chunks and
\* the Push chunk that ends it is one unit, the concatenation of its payloads.
RECURSIVE RunUnits(_, _)
RunUnits(i, from) ==
  IF i > Len(wire) THEN <<>>
  ELSE IF wire[i].tag = "Push"
       THEN <<Payloads(from, i)>> \o RunUnits(i + 1, i + 1)
       ELSE RunUnits(i + 1, from)

\* The last chunk that carries data: the last one, or the one before an
\* empty Final chunk that into_inner added.
LastData ==
  IF wire[Len(wire)].tag = "Final" /\ wire[Len(wire)].p = <<>>
  THEN Len(wire) - 1 ELSE Len(wire)

\* The ciphertext is runs of Message chunks, each ended by a Push chunk.
PushRuns ==
  /\ prod = "RAW" /\ Untouched /\ ~compress /\ Len(wire) >= 2
  /\ LastData >= 2
  /\ \A i \in 2..LastData : wire[i].tag \in {"Message", "Push"}
  /\ wire[LastData].tag = "Push"

\* C7: each run of zero or more Message chunks followed by a Push chunk comes
\* out of DecryptingRecordWriter and of DecryptingRecordReader as exactly one
\* unit, the concatenation of the run's payloads in order; consecutive runs
\* give one unit each, in order.
C7_PushMerge ==
  (PushRuns /\ pc \in {"drw", "done"}) =>
    /\ ~DrrFailed /\ DrrUnits(drr.ret) = RunUnits(2, 2)
    /\ (drw.pos = Len(wire) + 1 /\ drw.state # "Idle" =>
          drw.res = "ok" /\ drw.out = RunUnits(2, 2))

C7_Witness ==
  /\ PushRuns /\ DrwRanToEnd
  /\ Len(wire) = 4 /\ wire[2].tag = "Message" /\ wire[3].tag = "Message"
  /\ wire[2].p = <<0>> /\ wire[3].p = <<1>> /\ wire[4].p = <<1>>
  /\ drw.out = << <<0, 1, 1>> >>
  /\ drr.ret[1] = Some(<<0, 1, 1>>)

\* The ciphertext is Message chunks followed by a Final chunk, and they carry
\* at least one byte.
FinalRun ==
  /\ prod = "RAW" /\ Untouched /\ ~compress /\ Len(wire) >= 2
  /\ \A i \in 2..Len(wire) - 1 : wire[i].tag = "Message"
  /\ wire[Len(wire)].tag = "Final"
  /\ Payloads(2, Len(wire)) # <<>>

\* C8: a run of zero or more Message chunks followed by a Final chunk, not all
\* empty, comes out as exactly one unit, the concatenation of the payloads,
\* and the stream is finalized: DecryptingRecordWriter is Finished and the
\* next maybe_read_record call returns None.
C8_FinalMerge ==
  (FinalRun /\ pc \in {"drw", "done"}) =>
    /\ drr.ret[1] = Some(Payloads(2, Len(wire)))
    /\ \A i \in 2..Len(drr.ret) : drr.ret[i] = None
    /\ (drw.pos > Len(wire) =>
          drw.state = "Finished" /\ drw.out = <<Payloads(2, Len(wire))>>)

C8_Witness ==
  /\ FinalRun /\ DrwRanToEnd
  /\ Len(wire) = 3 /\ wire[2].p = <<0>> /\ wire[3].p = <<1>>
  /\ drw.state = "Finished" /\ drw.out = << <<0, 1>> >>
  /\ drr.ret = << Some(<<0, 1>>), None, None >>

\* C9: once DecryptingRecordWriter is Finished every write_record call fails,
\* writes nothing downstream and leaves the state, the buffer and the sink it
\* holds as they were.
C9_WriteAfterFinished ==
  [][(pc = "drw" /\ drw.state = "Finished" /\ drw.inner
        /\ drw'.pos = drw.pos + 1) =>
       /\ drw'.res = "err"
       /\ drw'.out = drw.out
       /\ drw'.state = "Finished"
       /\ drw'.buf = drw.buf
       /\ drw'.inner]_vars

C9_Witness ==
  /\ pc = "drw" /\ drw.state = "Finished" /\ drw.inner /\ drw.res = "err"
  /\ tampered = 1 /\ drw.pos = Len(wire) + 2
  /\ drw.out = written /\ Len(written) = 2

\* C10: once the Final chunk has been processed and a further record is in
\* the upstream source, the next read fails: the read of DecryptingReader
\* that reaches the record, and the maybe_read_record call after the one that
\* processed the Final chunk.
C10_ReadersRejectAfterFinal ==
  (prod = "ERW" /\ tampered = 1 /\ dkey = EncKey) =>
    /\ (dr.ends = 1 => dr.last = "err")
    /\ (Len(drr.ret) >= Len(written) + 2 =>
          drr.ret[Len(written) + 2] = Err)

\* C11: symmetric_decrypt_verify under the encrypting key fails on every
\* ciphertext of symmetric_encrypt_sign that has a non-empty byte string
\* appended, whatever the bytes and their number.
C11_AppendedBytesRejected ==
  (lib.pc = "done" /\ lib.appended > 0 /\ lib.dkey = EncKey) => lib.res = "err"

\* C12: under a key other than the encrypting one, symmetric_decrypt_verify
\* fails with nothing written, and every streaming consumer fails on its first
\* chunk: no record reaches the downstream sink, no maybe_read_record call
\* returns a record, no read returns a byte.
C12_WrongKeyRejected ==
  /\ (lib.pc = "done" /\ lib.dkey # EncKey) =>
        lib.res = "err" /\ lib.plain = <<>>
  /\ dkey # EncKey =>
        /\ dr.got = <<>> /\ dr.last # "data"
        /\ (dr.ends = 1 => dr.last = "err")
        /\ (drr.ret # <<>> => drr.ret[1] = Err)
        /\ \A i \in 1..Len(drr.ret) : drr.ret[i] \in {Err, None}
        /\ drw.out = <<>>
        /\ (drw.pos > 2 => drw.res = "err")
        /\ drw.closed \in {"no", "err", "dropped"}

C12_Witness ==
  /\ dkey # EncKey /\ pc = "done" /\ Len(written) = 2
  /\ drw.closed = "err" /\ drw.out = <<>> /\ drw.pos > 2
  /\ drr.ret[1] = Err /\ dr.made /\ dr.got = <<>>

\* C13: after new, n successful write_record calls and a successful
\* into_inner the sink holds n + 2 records: the header, one Push chunk per
\* call in call order whose payload is the record (compressed in full when
\* compress is on), and one empty Final chunk; none is Message or Rekey.
C13_WireLayout ==
  (prod = "ERW" /\ pc = "wire" /\ tampered = 0) =>
    /\ wire = sink
    /\ Len(sink) = Len(written) + 2
    /\ sink[1] = Header
    /\ \A i \in 1..Len(written) :
         /\ sink[i + 1].kind = "chunk" /\ sink[i + 1].tag = "Push"
         /\ sink[i + 1].p =
              IF compress THEN Compress(written[i]) ELSE written[i]
    /\ sink[Len(sink)].kind = "chunk" /\ sink[Len(sink)].tag = "Final"
    /\ sink[Len(sink)].p = <<>>

C13_Witness ==
  /\ prod = "ERW" /\ pc = "wire" /\ tampered = 0 /\ compress
  /\ written = << <<0>>, <<>> >> /\ Len(sink) = 4
  /\ sink[2].p = Compress(<<0>>) /\ sink[3].p = Compress(<<>>)

\* new is old with one empty Final chunk added.
OneFinalAdded(old, new) ==
  /\ Len(new) = Len(old) + 1 /\ SubSeq(new, 1, Len(old)) = old
  /\ new[Len(new)].kind = "chunk" /\ new[Len(new)].tag = "Final"
  /\ new[Len(new)].p = <<>>

\* C14: discarding an EncryptingRecordWriter without into_inner writes exactly
\* one empty Final chunk to the sink and then flushes it; when the write or
\* the flush fails the teardown panics. After a successful into_inner the
\* teardown writes nothing: the sink got the one Final chunk of into_inner
\* and no flush.
C14_TeardownFinalizes ==
  [][/\ (pc = "enc" /\ pc' = "gone") =>
          IF ~enc.stream.fin /\ enc.bad = "no"
          THEN /\ OneFinalAdded(sink, sink')
               /\ enc'.flushes = enc.flushes + 1
               /\ enc'.res = "dropped"
          ELSE /\ enc'.res = "panic"
               /\ enc'.flushes = enc.flushes
               /\ IF ~enc.stream.fin /\ enc.bad = "flush"
                  THEN OneFinalAdded(sink, sink')
                  ELSE sink' = sink
     /\ (pc = "enc" /\ pc' = "wire" /\ ~enc.stream.fin /\ enc'.stream.fin) =>
          /\ OneFinalAdded(sink, sink')
          /\ enc'.flushes = enc.flushes
          /\ enc'.res = "ok"]_vars

C14_Witness ==
  /\ pc = "gone" /\ prod = "ERW" /\ enc.res = "dropped" /\ enc.flushes = 1
  /\ Len(written) = 2 /\ Len(sink) = 4 /\ sink[4].tag = "Final"

\* The sink holds at most one Final chunk, and it is the last record.
FinalOnlyLast(snk) ==
  \A i \in 1..Len(snk) - 1 : TagOf(snk[i]) # "Final"

\* C15: whatever is done with an EncryptingRecordWriter, its sink never gets
\* a second Final chunk nor any chunk after a Final chunk, and an into_inner
\* call on a stream that is already finalized returns an error and emits
\* nothing.
C15_FinalizeOnce ==
  [][/\ FinalOnlyLast(sink')
     /\ (pc = "enc" /\ enc.stream.fin /\ pc' = "done") =>
          enc'.res = "err" /\ sink' = sink]_vars

\* C16: a panic happens only in the teardown of a writer that was discarded
\* without into_inner: an into_inner call of EncryptingRecordWriter or of
\* DecryptingRecordWriter whose finalization fails returns an error.
C16_PanicOnlyAtTeardown ==
  /\ enc.res = "panic" => pc = "gone"
  /\ drw.closed = "panic" => pc = "gone"

\* C17: into_inner and the teardown of a DecryptingRecordWriter that still
\* holds its sink emit a non-empty buffer downstream as exactly one record,
\* the whole buffer, decompressed when compress is on, and emit nothing
\* when the buffer is empty; a buffer that does not decompress emits nothing
\* and the call does not succeed.
C17_ResidualFlush ==
  [][(pc = "drw" /\ pc' \in {"done", "gone"} /\ drw.inner) =>
       IF drw.buf = <<>>
       THEN drw'.out = drw.out /\ drw'.closed \in {"ok", "dropped"}
       ELSE IF ~compress
            THEN /\ drw'.out = Append(drw.out, drw.buf)
                 /\ drw'.closed \in {"ok", "dropped"}
            ELSE IF Decompress(drw.buf).ok
                 THEN /\ drw'.out = Append(drw.out, Decompress(drw.buf).v)
                      /\ drw'.closed \in {"ok", "dropped"}
                 ELSE /\ drw'.out = drw.out
                      /\ drw'.closed \notin {"ok", "dropped"}]_vars

C17_Witness ==
  /\ pc = "gone" /\ prod = "RAW" /\ compress /\ Untouched
  /\ Len(wire) = 4 /\ \A i \in 2..4 : wire[i].tag = "Message"
  /\ wire[2].p = <<1>> /\ wire[3].p = <<0>> /\ wire[4].p = <<0>>
  /\ drw.closed = "dropped"
  /\ drw.out = <<Decompress(<<1, 0, 0>>).v>> /\ Len(drw.out[1]) = 1

\* C18: the write_record call that is passed a Rekey chunk and the
\* maybe_read_record call that pulls one fail, and emit neither the payload
\* of the chunk nor what was accumulated before it.
C18_RekeyRejectedByRecords ==
  [][/\ (Untouched /\ pc = "drw" /\ drw.pos <= Len(wire)
           /\ drw'.pos = drw.pos + 1 /\ TagOf(wire[drw.pos]) = "Rekey") =>
          drw'.res = "err" /\ drw'.out = drw.out
     /\ (Untouched /\ pc = "drr" /\ drr'.pos > drr.pos
           /\ \E k \in drr.pos..drr'.pos - 1 : TagOf(wire[k]) = "Rekey") =>
          /\ Len(drr'.ret) = Len(drr.ret) + 1
          /\ drr'.ret[Len(drr'.ret)] = Err]_vars

C18_Witness ==
  /\ Untouched /\ prod = "RAW" /\ ~compress /\ pc = "drw"
  /\ Len(wire) = 3 /\ wire[2].tag = "Message" /\ wire[2].p = <<0>>
  /\ wire[3].tag = "Rekey"
  /\ drw.pos = 4 /\ drw.res = "err" /\ drw.out = <<>>
  /\ drr.ret[1] = Err

\* C19: the read of DecryptingReader that pulls a Rekey chunk fails and
\* delivers none of its payload.
C19_RekeyRejectedByReader ==
  [][(Untouched /\ pc = "dr" /\ dr'.pos > dr.pos
        /\ \E k \in dr.pos..dr'.pos - 1 : TagOf(wire[k]) = "Rekey") =>
       dr'.last = "err" /\ dr'.got = dr.got]_vars

\* C20: a read of DecryptingReader returns 0 only when the upstream source is
\* at its end and the queue is empty, an empty chunk in the middle of the
\* stream never does it, and no read returns data after one returned 0.
C20_ZeroReadIsEnd ==
  [][(pc = "dr" /\ dr' # dr) =>
       /\ (dr'.last = "eof" =>
             dr'.pos > Len(wire) /\ dr'.q = <<>> /\ dr'.got = dr.got)
       /\ (dr.last = "eof" => dr'.last = "eof")]_vars

C20_Witness ==
  /\ prod = "RAW" /\ Untouched /\ ~compress
  /\ Len(wire) = 4 /\ wire[2].tag = "Push" /\ wire[2].p = <<>>
  /\ wire[3].tag = "Message" /\ wire[3].p = <<>>
  /\ wire[4].tag = "Push" /\ wire[4].p = <<1>>
  /\ dr.last = "eof" /\ dr.got = <<1>>

\* The merged payloads of the chunks from wire[i] on, the current run having
\* started at wire[from]: a run ends at a Push chunk or at a Final chunk, and
\* a Final chunk that ends an empty run gives no unit.
RECURSIVE MergedUnits(_, _)
MergedUnits(i, from) ==
  IF i > Len(wire) THEN <<>>
  ELSE IF wire[i].tag = "Push"
       THEN <<Payloads(from, i)>> \o MergedUnits(i + 1, i + 1)
  ELSE IF wire[i].tag = "Final"
       THEN IF Payloads(from, i) = <<>> THEN <<>> ELSE <<Payloads(from, i)>>
  ELSE MergedUnits(i + 1, from)

\* With compress on, the ciphertext is runs of Message chunks each ended by a
\* Push or a Final chunk, every run a compressed unit.
CompressedRuns ==
  /\ prod = "RAW" /\ Untouched /\ compress /\ Len(wire) >= 2
  /\ \A i \in 2..Len(wire) : wire[i].tag \in {"Message", "Push", "Final"}
  /\ wire[Len(wire)].tag \in {"Push", "Final"}
  /\ \A j \in 1..Len(MergedUnits(2, 2)) : Decompress(MergedUnits(2, 2)[j]).ok

\* What the compressed runs decode to, one record per run.
DecodedUnits ==
  [j \in 1..Len(MergedUnits(2, 2)) |-> Decompress(MergedUnits(2, 2)[j]).v]

\* C21: with compress on, DecryptingRecordWriter and DecryptingRecordReader
\* decompress once per flushed unit, the accumulated Message payloads
\* followed by the payload of the Push or Final chunk, and never a Message
\* chunk on its own: each run decodes to what its merged payload decodes to.
C21_DecompressMergedUnit ==
  (CompressedRuns /\ pc \in {"drw", "done", "gone"}) =>
    /\ ~DrrFailed /\ DrrUnits(drr.ret) = DecodedUnits
    /\ (drw.pos = Len(wire) + 1 /\ drw.state # "Idle" =>
          drw.res = "ok" /\ drw.out = DecodedUnits)

C21_Witness ==
  /\ CompressedRuns /\ DrwRanToEnd
  /\ Len(wire) = 4 /\ wire[2].tag = "Message" /\ wire[3].tag = "Message"
  /\ wire[4].tag = "Push"
  /\ wire[2].p = <<1>> /\ wire[3].p = <<1>> /\ wire[4].p = <<0>>
  /\ drw.out = << <<0>> >> /\ drr.ret[1] = Some(<<0>>)

\* C22: with compress on, DecryptingReader decodes a compressed unit split
\* over Message chunks and a Push or Final chunk by decompressing the merged
\* payload once: its reads do not fail and the bytes it delivers up to its
\* end of stream are those of the units DecryptingRecordWriter emits.
C22_ReaderDecompressesMergedUnit ==
  CompressedRuns =>
    /\ dr.last # "err"
    /\ (dr.last = "eof" => dr.got = Flatten(DecodedUnits))

\* A step is a write_record call on the DecryptingRecordWriter.
DrwWrites == pc = "drw" /\ drw.state # "Idle" /\ drw'.pos = drw.pos + 1

\* The record that call is passed.
Fed == wire[Min(drw.pos, Len(wire))]

\* The call pulls a chunk with that tag.
DrwPulls(tag) ==
  /\ DrwWrites /\ drw.inner /\ drw.state = "WantData" /\ ~drw.stream.fin
  /\ Pull(drw.stream, Fed).ok /\ Pull(drw.stream, Fed).tag = tag

\* C23: the first record passed to write_record is taken as the header: the
\* call succeeds, the state goes from WantHeader to WantData, nothing is
\* written downstream, the buffer stays empty, and no chunk has been pulled
\* while the state is WantHeader.
C23_HeaderStep ==
  [][/\ (DrwWrites /\ drw.state = "WantHeader" /\ drw.inner
           /\ HeaderFromSlice(Fed)) =>
          /\ drw.pos = 1
          /\ drw'.res = "ok" /\ drw'.state = "WantData"
          /\ drw'.out = <<>> /\ drw'.buf = <<>>
          /\ drw'.stream = InitStream(dkey)
     /\ (drw'.state = "WantHeader" =>
          drw'.stream = InitStream(dkey) /\ drw'.out = <<>>
            /\ drw'.buf = <<>>)]_vars

C23_Witness ==
  /\ pc = "drw" /\ drw.state = "WantData" /\ drw.pos = 2 /\ drw.res = "ok"
  /\ drw.out = <<>> /\ drw.buf = <<>> /\ drw.stream.ctr = 0
  /\ Len(wire) = 4

Rank(st) ==
  CASE st = "Idle" -> 0 [] st = "WantHeader" -> 1 [] st = "WantData" -> 2
    [] st = "Finished" -> 3

\* C24: over write_record, flush, into_inner and teardown the decrypt state
\* never goes back; WantData is entered only from WantHeader by a header
\* record that succeeds, Finished only from WantData by a Final chunk that is
\* pulled and processed with success.
C24_StateMovesForward ==
  [][/\ Rank(drw'.state) >= Rank(drw.state)
     /\ (drw'.state = "WantData" /\ drw.state # "WantData") =>
          /\ drw.state = "WantHeader" /\ DrwWrites
          /\ HeaderFromSlice(Fed) /\ drw'.res = "ok"
     /\ (drw'.state = "Finished" /\ drw.state # "Finished") =>
          DrwPulls("Final") /\ drw'.res = "ok"]_vars

C24_Witness ==
  /\ pc = "drw" /\ drw.state = "Finished" /\ drw.flushes = 1
  /\ drw.pos = Len(wire) + 2 /\ drw.res = "err" /\ drw.inner
  /\ Len(wire) = 3

\* C25: a Message chunk only accumulates. write_record appends its payload
\* at the end of the buffer, writes nothing downstream and stays in
\* WantData; maybe_read_record does not return on a Message chunk: of the
\* records one call reads, all but the last are Message chunks, and the last
\* is one only at the end of the upstream source.
C25_MessageAccumulates ==
  [][/\ DrwPulls("Message") =>
          /\ drw'.buf = drw.buf \o Fed.p
          /\ drw'.out = drw.out
          /\ drw'.state = "WantData" /\ drw'.inner /\ drw'.res = "ok"
     /\ (Untouched /\ pc = "drr" /\ drr'.pos > drr.pos) =>
          /\ \A k \in drr.pos..drr'.pos - 2 : TagOf(wire[k]) = "Message"
          /\ (TagOf(wire[drr'.pos - 1]) = "Message" =>
                drr'.pos = Len(wire) + 1)]_vars

C25_Witness ==
  /\ pc = "drw" /\ prod = "RAW" /\ Untouched /\ drw.inner
  /\ drw.state = "WantData" /\ drw.pos = 4
  /\ drw.buf = <<0, 1>> /\ drw.out = <<>>
  /\ Len(wire) = 4 /\ wire[4].tag = "Push"
  /\ Len(drr.ret) >= 1 /\ drr.ret[1].t = "some"

\* The buffer of the live writer d is the payloads of the Message chunks it
\* was passed since the last Push chunk.
BufIsMessageRun(d) ==
  (d.inner /\ d.closed = "no" /\ d.state = "WantData"
     /\ d.pos <= Len(wire) + 1) =>
    \E k \in 2..d.pos :
      /\ \A j \in k..d.pos - 1 : TagOf(wire[j]) = "Message"
      /\ d.buf = Payloads(k, d.pos - 1)
      /\ (k = 2 \/ TagOf(wire[k - 1]) # "Message")

\* C26: the buffer is empty after every write_record that processed a Push
\* or a Final chunk with success and after a successful into_inner; at any
\* time it holds exactly the payloads of the Message chunks received since
\* the last Push or Final, so it is non-empty only when one of them was.
C26_BufferDrained ==
  [][/\ ((DrwPulls("Push") \/ DrwPulls("Final")) /\ drw'.res = "ok") =>
          drw'.buf = <<>>
     /\ (pc = "drw" /\ pc' = "done" /\ drw'.closed = "ok") =>
          drw'.buf = <<>>
     /\ (drw'.inner /\ drw'.state \in {"WantHeader", "Finished"}) =>
          drw'.buf = <<>>
     /\ BufIsMessageRun(drw')]_vars

C26_Witness ==
  /\ pc = "drw" /\ prod = "RAW" /\ Untouched /\ ~compress /\ drw.inner
  /\ Len(wire) = 4 /\ wire[2].tag = "Message" /\ wire[2].p = <<1>>
  /\ wire[3].tag = "Push" /\ wire[3].p = <<0>>
  /\ wire[4].tag = "Message"
  /\ drw.pos = 4 /\ drw.buf = <<>> /\ drw.out = << <<1, 0>> >>

\* The ciphertext is a header and an empty Final chunk.
EmptyStream ==
  /\ Untouched /\ Len(wire) = 2
  /\ TagOf(wire[2]) = "Final" /\ wire[2].p = <<>>

\* Such a stream decrypts to no record, without error.
EmptyStreamDecrypts ==
  (EmptyStream /\ pc \in {"drw", "done", "gone"}) =>
    /\ drr.ret # <<>> /\ \A i \in 1..Len(drr.ret) : drr.ret[i] = None
    /\ drw.out = <<>>
    /\ (drw.pos <= 3 => drw.res # "err")
    /\ drw.closed \in {"no", "ok", "dropped"}

\* C27: an empty Final chunk met with an empty buffer emits nothing:
\* write_record writes no record and moves to Finished, maybe_read_record
\* returns None and not an empty record, and a header followed by an empty
\* Final chunk decrypts to no record without error.
C27_EmptyFinalEmitsNothing ==
  [][/\ (DrwPulls("Final") /\ Fed.p = <<>> /\ drw.buf = <<>>) =>
          /\ drw'.out = drw.out /\ drw'.state = "Finished"
          /\ drw'.res = "ok" /\ drw'.inner
     /\ (Untouched /\ pc = "drr" /\ drr'.pos > drr.pos
           /\ TagOf(wire[drr'.pos - 1]) = "Final"
           /\ Payloads(drr.pos, drr'.pos - 1) = <<>>) =>
          /\ Len(drr'.ret) = Len(drr.ret) + 1
          /\ drr'.ret[Len(drr'.ret)] = None
     /\ EmptyStreamDecrypts']_vars

C27_Witness ==
  /\ EmptyStream /\ compress /\ pc = "done"
  /\ drw.state = "Finished" /\ drw.closed = "ok" /\ drw.out = <<>>
  /\ drr.ret[1] = None

\* C30: DecryptingRecordWriter.flush writes no record downstream and leaves
\* the buffer and the decrypt state as they are, whatever the buffer holds;
\* it flushes the downstream sink, and fails once the writer lost its sink.
C30_FlushKeepsBuffer ==
  [][(pc = "drw" /\ pc' = "drw" /\ drw.state # "Idle"
        /\ drw'.pos = drw.pos /\ drw' # drw) =>
       /\ drw'.out = drw.out /\ drw'.buf = drw.buf
       /\ drw'.state = drw.state /\ drw'.stream = drw.stream
       /\ drw'.inner = drw.inner
       /\ IF drw.inner
          THEN drw'.flushes = drw.flushes + 1 /\ drw'.res = "ok"
          ELSE drw'.flushes = drw.flushes /\ drw'.res = "err"]_vars

C30_Witness ==
  /\ pc = "drw" /\ prod = "RAW" /\ drw.inner /\ drw.flushes = 1
  /\ drw.res = "ok" /\ drw.state = "WantData"
  /\ drw.buf = <<1, 0>> /\ drw.out = <<>> /\ drw.pos = 4

\* The chunk the k-th write of an EncryptingWriter puts on the sink, w being
\* the buffers its writes were passed.
EwChunk(w, k) ==
  [kind |-> "chunk", key |-> EncKey, ctr |-> k - 1, tag |-> "Push",
   p |-> IF compress THEN Compress(w[k]) ELSE w[k]]

\* C28: every successful EncryptingWriter.write(buf), an empty buf included,
\* appends exactly one Push chunk to the sink, whose payload is the whole of
\* buf (compressed in full when compress is on), and returns buf.len(): the
\* sink holds one Push chunk per accepted write, in order.
C28_OneWriteOneChunk ==
  [][(prod = "EW" /\ pc = "enc" /\ pc' = "enc" /\ enc' # enc
        /\ enc'.res = "ok") =>
       /\ Len(written') = Len(written) + 1
       /\ sink' = Append(sink, EwChunk(written', Len(written')))
       /\ enc'.n = Len(written'[Len(written')])
       /\ \A k \in 1..Len(written') : sink'[k + 1] = EwChunk(written', k)
       /\ Len(sink') = Len(written') + 1]_vars

C28_Witness ==
  /\ prod = "EW" /\ pc = "enc" /\ compress /\ enc.res = "ok" /\ enc.n = 0
  /\ written = << <<1, 0>>, <<>> >>
  /\ Len(sink) = 3 /\ sink[2].p = <<1, 0, 1, 0>> /\ sink[3].p = <<1, 0>>
  /\ sink[3].tag = "Push"

\* C29: DecryptingReader reads a record upstream and pulls it only when its
\* queue is empty: a read made while the queue holds bytes reads no record,
\* pulls nothing, and returns bytes from the front of the queue only.
C29_LazyPull ==
  [][(pc = "dr" /\ dr.made /\ dr' # dr) =>
       /\ (dr'.pos # dr.pos \/ dr'.stream # dr.stream) => dr.q = <<>>
       /\ dr.q # <<>> =>
            /\ dr'.pos = dr.pos /\ dr'.stream = dr.stream
            /\ dr'.last = "data"
            /\ \E k \in 1..Len(dr.q) :
                 /\ dr'.got = dr.got \o SubSeq(dr.q, 1, k)
                 /\ dr'.q = SubSeq(dr.q, k + 1, Len(dr.q))]_vars

C29_Witness ==
  /\ pc = "dr" /\ dr.made /\ Untouched /\ ~compress
  /\ Len(wire) = 4 /\ wire[2].p = <<0, 1>> /\ wire[3].p = <<1>>
  /\ dr.pos = 3 /\ dr.got = <<0, 1>> /\ dr.q = <<>> /\ dr.last = "data"
  /\ dr.stream.ctr = 1

\* The chunks a DecryptingRecordWriter that still holds its sink has pulled:
\* wire[2] to wire[PulledTo].
PulledTo == drw.stream.ctr + 1

\* C31: with compression off, while write_record calls succeed, the records
\* written downstream followed by the buffer are the payloads of the chunks
\* pulled so far, in order, and there are no more downstream records than
\* Push and Final chunks pulled.
C31_CleartextConserved ==
  (~compress /\ drw.inner /\ drw.state \in {"WantData", "Finished"}) =>
    /\ PulledTo <= Len(wire)
    /\ Flatten(drw.out) \o drw.buf = Payloads(2, PulledTo)
    /\ drw.closed = "no" =>
         Len(drw.out) <= Cardinality({i \in 2..PulledTo :
                                       wire[i].tag \in {"Push", "Final"}})

C31_Witness ==
  /\ ~compress /\ pc = "drw" /\ drw.inner /\ drw.res = "ok"
  /\ Len(wire) = 4 /\ drw.pos = 5
  /\ wire[2].tag = "Message" /\ wire[2].p = <<0>>
  /\ wire[3].tag = "Push" /\ wire[3].p = <<1>>
  /\ wire[4].tag = "Message" /\ wire[4].p = <<1>>
  /\ drw.out = << <<0, 1>> >> /\ drw.buf = <<1>>

\* C32: once write_record has failed in WantHeader or WantData the writer
\* has lost its sink: every later write_record and flush fails, into_inner
\* fails, nothing more is written downstream, and teardown neither flushes
\* the residual buffer nor aborts.
C32_FailedWriterUnusable ==
  [][/\ (DrwWrites /\ drw.inner /\ drw.state \in {"WantHeader", "WantData"}
           /\ drw'.res = "err") => ~drw'.inner
     /\ (pc = "drw" /\ drw.state # "Idle" /\ ~drw.inner) =>
          /\ ~drw'.inner
          /\ drw'.out = drw.out /\ drw'.buf = drw.buf
          /\ drw'.flushes = drw.flushes
          /\ drw'.state = drw.state
          /\ pc' = "drw" => drw'.res = "err" /\ drw'.closed = "no"
          /\ pc' = "done" => drw'.closed = "err"
          /\ pc' = "gone" => drw'.closed = "dropped"]_vars

C32_Witness ==
  /\ pc = "gone" /\ prod = "RAW" /\ ~drw.inner /\ drw.closed = "dropped"
  /\ drw.state = "WantData" /\ drw.buf = <<1>> /\ drw.out = <<>>
  /\ drw.res = "err" /\ drw.flushes = 1 /\ drw.pos = 5
  /\ wire[3].tag = "Rekey"

\* C33: once a maybe_read_record call of DecryptingRecordReader has failed,
\* no later call on the same reader returns None or a record.
C33_FailureStaysVisible ==
  \A i \in 1..Len(drr.ret) : \A j \in i + 1..Len(drr.ret) :
    drr.ret[i] = Err => drr.ret[j] = Err

\* The units of the chunks wire[i..n], none of them Final: a run of Message
\* chunks ended by a Push chunk is one unit, and so is a non-empty run that
\* nothing ends.
RECURSIVE CutUnits(_, _, _)
CutUnits(i, from, n) ==
  IF i > n
  THEN IF Payloads(from, n) = <<>> THEN <<>> ELSE <<Payloads(from, n)>>
  ELSE IF wire[i].tag = "Push"
       THEN <<Payloads(from, i)>> \o CutUnits(i + 1, i + 1, n)
       ELSE CutUnits(i + 1, from, n)

\* The first n records of the ciphertext are a header and Message and Push
\* chunks: a stream cut off before its Final chunk.
NoFinalTo(n) ==
  /\ Untouched /\ ~compress /\ n >= 1 /\ n <= Len(wire)
  /\ \A i \in 2..n : wire[i].tag \in {"Message", "Push"}

Finals(snk) == {i \in 1..Len(snk) : TagOf(snk[i]) = "Final"}

\* C36: EncryptingWriter writes a Final chunk only in into_inner. Discarded
\* without into_inner it leaves the header and one Push chunk per write on
\* the sink and no Final chunk; flush writes nothing and changes neither the
\* stream nor the sink.
C36_NoTeardownFinalization ==
  [][(prod = "EW" /\ pc = "enc") =>
       /\ Finals(sink) = {}
       /\ Finals(sink') # {} =>
            /\ pc' = "wire" /\ ~enc'.inner /\ enc'.res = "ok"
            /\ Finals(sink') = {Len(sink')} /\ Len(sink') = Len(sink) + 1
       /\ enc'.res = "discarded" =>
            /\ sink' = sink /\ wire' = sink /\ enc'.stream = enc.stream
            /\ Len(sink) = Len(written) + 1 /\ sink[1] = Header
            /\ \A k \in 1..Len(written) : sink[k + 1] = EwChunk(written, k)
       /\ (enc'.res = "flushed" /\ enc.res # "flushed") =>
            /\ sink' = sink /\ pc' = pc /\ written' = written
            /\ enc'.stream = enc.stream /\ enc'.inner = enc.inner
            /\ enc'.flushes = enc.flushes /\ enc'.bad = enc.bad]_vars

C36_Witness ==
  /\ prod = "EW" /\ pc = "dr" /\ enc.res = "discarded" /\ enc.inner
  /\ Len(written) = 2 /\ Len(wire) = 3 /\ Finals(wire) = {}
  /\ wire[3].tag = "Push" /\ ~enc.stream.fin
  /\ dr.last = "eof" /\ dr.got = Flatten(written) /\ dr.got # <<>>

\* The whole-buffer ciphertext as it was written ended at this byte.
WrittenEnd == Len(lib.ct) - lib.appended

\* C34: symmetric_decrypt_verify_file returns Ok only after it pulled a
\* Final chunk and read an empty record behind it; it fails on a ciphertext
\* cut off before the end of its Final chunk and on one with a non-empty
\* record behind the Final chunk.
C34_OkOnlyOnCompleteStream ==
  /\ lib.res = "ok" =>
       /\ lib.ds.fin /\ lib.cut = 0
       /\ \E p \in 2..lib.dpos :
            /\ lib.ct[p - 1].k = "mac" /\ lib.ct[p - 1].v.tag = "Final"
            /\ LibReadRecord(lib.ct, p) =
                 [ok |-> TRUE, rec |-> <<>>, pos |-> lib.dpos]
  /\ (lib.pc = "done" /\ lib.cut > 0) => lib.res = "err"
  /\ (lib.pc = "done" /\ lib.appended > 0
        /\ LibReadRecord(lib.ct, WrittenEnd + 1).ok
        /\ LibReadRecord(lib.ct, WrittenEnd + 1).rec # <<>>) =>
       lib.res = "err"

C34_Witness ==
  /\ lib.pc = "done" /\ lib.dkey = EncKey /\ lib.res = "err"
  /\ lib.input = <<0, 1>> /\ lib.cut = 5 /\ lib.plain = <<0, 1>>
  /\ Len(lib.ct) = 17

\* The records of the byte string ct from position pos on: the header, the
\* chunks, Junk for what is neither.
RECURSIVE LibRecords(_, _)
LibRecords(ct, pos) ==
  IF pos > Len(ct) THEN <<>>
  ELSE LET r == LibReadRecord(ct, pos) IN
       IF ~r.ok THEN <<Junk>>
       ELSE <<IF r.rec = <<HdrCell>> THEN Header ELSE Open(r.rec)>>
              \o LibRecords(ct, r.pos)

\* The payloads of the chunks recs[i..j], concatenated.
RECURSIVE PayloadsOf(_, _, _)
PayloadsOf(recs, i, j) ==
  IF i > j THEN <<>> ELSE recs[i].p \o PayloadsOf(recs, i + 1, j)

\* The layout symmetric_encrypt_sign_file gives its ciphertext.
WholeBufferLayout(recs, input) ==
  /\ Len(recs) >= 3 /\ recs[1] = Header
  /\ TagOf(recs[2]) = "Message" /\ recs[2].p = <<>>
  /\ \A i \in 3..Len(recs) - 1 :
       TagOf(recs[i]) = "Push" /\ recs[i].p # <<>>
  /\ TagOf(recs[Len(recs)]) = "Final" /\ recs[Len(recs)].p = <<>>
  /\ PayloadsOf(recs, 3, Len(recs) - 1) = input

\* C37: symmetric_encrypt_sign_file emits the header, an empty Message
\* chunk, one Push chunk per non-empty input block and an empty Final chunk;
\* symmetric_decrypt_verify_file goes on only when the first chunk behind
\* the header is an empty Message chunk, so it rejects every stream of an
\* EncryptingRecordWriter or an EncryptingWriter.
C37_InitialEmptyMessage ==
  /\ (pc = "file" /\ lib.pc \in {"sent", "dec", "done"}) =>
       WholeBufferLayout(LibRecords(lib.ct, 1), lib.input)
  /\ (lib.pc = "dec" \/ lib.res = "ok") =>
       /\ Len(LibRecords(lib.ct, 1)) >= 2
       /\ TagOf(LibRecords(lib.ct, 1)[2]) = "Message"
       /\ LibRecords(lib.ct, 1)[2].p = <<>>
  /\ (pc = "cross" /\ prod \in {"ERW", "EW"}) =>
       /\ LibRecords(lib.ct, 1) = wire
       /\ lib.pc = "done" /\ lib.res = "err" /\ lib.plain = <<>>

C37_Witness ==
  /\ pc = "cross" /\ prod = "ERW" /\ ~compress
  /\ written = << <<>>, <<0, 1>> >>
  /\ Len(wire) = 4 /\ wire[2].tag = "Push" /\ wire[2].p = <<>>
  /\ lib.pc = "done" /\ lib.res = "err" /\ lib.dkey = EncKey

\* The first record of the ciphertext that is not the chunk its place calls
\* for: a chunk was lost before it. 0 when there is none.
GapAt ==
  LET G == {i \in 2..Len(wire) : wire[i].ctr # i - 2} IN
  IF G = {} THEN 0 ELSE CHOOSE i \in G : \A j \in G : i <= j

\* C38: a chunk the sink rejects is lost and the push stream has moved on:
\* the failed write leaves the sink as it was and the stream one position
\* further. When the writer goes on, the sink holds chunks with a gap, and
\* decryption yields the records before the gap and fails at the first chunk
\* after it.
C38_FailedWriteNotRolledBack ==
  /\ [][(pc = "enc" /\ pc' = "enc" /\ enc.bad = "all" /\ enc'.bad = "all"
          /\ enc' # enc) =>
         /\ sink' = sink /\ written' = written
         /\ enc'.res = "err"
         /\ enc'.stream.ctr = enc.stream.ctr + 1]_vars
  /\ [](GapAt # 0 =>
         /\ Len(drr.ret) >= GapAt - 1 =>
              /\ drr.ret[GapAt - 1] = Err
              /\ \A k \in 1..GapAt - 2 : drr.ret[k] = Some(written[k])
              /\ DrrUnits(drr.ret) = SubSeq(written, 1, GapAt - 2)
         /\ (dr.made /\ dr.pos > GapAt) =>
              /\ dr.ends >= 1
              /\ dr.got = Flatten(SubSeq(written, 1, GapAt - 2)))

C38_Witness ==
  /\ pc = "drr" /\ prod = "ERW" /\ GapAt = 2 /\ Len(wire) = 3
  /\ written = << <<0, 1>> >>
  /\ wire[2].ctr = 1 /\ wire[2].tag = "Push" /\ wire[3].tag = "Final"
  /\ drr.ret # <<>> /\ drr.ret[1] = Err /\ DrrUnits(drr.ret) = <<>>
  /\ dr.got = <<>> /\ dr.ends >= 1

\* The last result maybe_read_record returned is the end or an error.
DrrEnded ==
  drr.ret # <<>> /\ drr.ret[Len(drr.ret)].t \in {"none", "err"}

\* C39: on a finite source every maybe_read_record and every read returns
\* having consumed no more than the records that were left, one record per
\* turn of its loop, and a caller that keeps reading is told the end of the
\* stream, or an error, after finitely many calls.
C39_ReadingTerminates ==
  /\ [][/\ (pc = "drr" /\ drr.made) =>
            /\ drr'.pos >= drr.pos /\ drr'.pos <= Len(wire) + 1
            /\ drr'.stream.ctr - drr.stream.ctr <= drr'.pos - drr.pos
            /\ drr'.ret[Len(drr'.ret)].t = "some" => drr'.pos > drr.pos
        /\ (pc = "dr" /\ dr.made) =>
            /\ dr'.pos >= dr.pos /\ dr'.pos <= Len(wire) + 1
            /\ dr'.stream.ctr - dr.stream.ctr = dr'.pos - dr.pos
            /\ (pc' = "dr" /\ dr'.last = "data") =>
                 dr'.pos > dr.pos \/ Len(dr'.q) < Len(dr.q)]_vars
  /\ ((pc = "dr" /\ dr.made) ~> (dr.last \in {"eof", "err"}))
  /\ ((pc = "drr" /\ drr.made) ~> DrrEnded)

C39_Witness ==
  /\ pc = "drr" /\ Len(wire) = 4
  /\ wire[2].tag = "Message" /\ wire[2].p = <<>>
  /\ wire[3].tag = "Message" /\ wire[3].p = <<>>
  /\ wire[4].tag = "Message" /\ wire[4].p = <<>>
  /\ dr.pos = 5 /\ dr.last = "eof" /\ dr.ends = 2
  /\ drr.pos = 5 /\ drr.ret # <<>> /\ drr.ret[1] = None /\ Len(drr.ret) = 1

\* C40: with an AEAD stream that is finalized exactly when the chunk pulled
\* last was tagged Final, the finalized-flag checks never fire: a
\* DecryptingRecordWriter in WantData and a DecryptingRecordReader that
\* still holds its stream hold one that is not finalized, and in the loop of
\* symmetric_decrypt_verify_file the flag of the stream after a pull agrees
\* with the tag pulled.
C40_FinalizedCheckUnreachable ==
  /\ (drw.inner /\ drw.state = "WantData") => ~drw.stream.fin
  /\ drr.some => ~drr.stream.fin
  /\ lib.pc = "dec" =>
       /\ ~lib.ds.fin
       /\ LET f == LibReadRecord(lib.ct, lib.dpos)
              m == Pull(lib.ds, Open(f.rec))
          IN (f.ok /\ m.ok) => (m.stream.fin = (m.tag = "Final"))

C40_Witness ==
  /\ pc = "done" /\ Untouched /\ prod = "RAW" /\ Len(wire) = 4
  /\ wire[4].tag = "Final" /\ wire[4].p = <<1>>
  /\ drw.inner = FALSE /\ drw.closed = "ok" /\ drw.state = "Finished"
  /\ drw.stream.fin /\ drr.stream.fin /\ ~drr.some /\ ~DrrFailed

====
